---- MODULE Spec2Model ----
(***************************************************************************)
(* Rshadow / SHADOw-C: recorded tape, trace playback (reverse-mode second  *)
(* order autodiff with edge pushing), the std::map based sparse symmetric  *)
(* matrix, and the regularized Newton maximizer.                           *)
(*                                                                         *)
(* Doubles are modelled by integers: every tape of the model is built from *)
(* plus, minus, multiply, square and cube over integer inputs, on which    *)
(* double arithmetic is exact.                                             *)
(***************************************************************************)
EXTENDS Integers, Sequences, FiniteSets, TLC

VARIABLES
    \* ---- Tape (tape.h) and the Spy handles created on it (spy.h)
    n_input_size,      \* Tape::n_input_size
    n_trace_size,      \* Tape::n_trace_size
    initial_values,    \* Tape::initial_values (sequence)
    operations,        \* Tape::operations (sequence of operator records)
    to_tape_map,       \* Tape::to_tape_map: tensor id -> tape id
    spies,             \* input handles declared so far: sequence of [tape_begin, size, val]
    handles,           \* handles returned by overloads and element access: set of [tape_begin, dim]
    last_call,         \* outcome of the last recording call
    ndebug,            \* TRUE when the build defines NDEBUG (assert compiled out)
    \* ---- Trace (trace.h)
    tstate,            \* "none" | "ready" | "reverse" | "played"
    values,            \* Trace::values, slot -> value
    adjoints,          \* Trace::adjoints, slot -> value
    hessian,           \* Trace::hessian.matrix, row -> (col -> value)
    hwidth,            \* Trace::hessian.width_
    rpos,              \* operator the reverse sweep visits next (0 = sweep over)
    plays,             \* number of completed play() calls
    prev_play,         \* values/adjoints/hessian left by the previous play(), or NoPlay
    \* ---- element reference of the sparse matrix (sparse_matrix.h)
    ref,               \* the live elem_ref_t: [i, j, valid], or NoRef; zeroed: the last
                       \* write through it was  = 0.0
    mat_ops,           \* number of matrix calls made so far
    \* ---- Solver::maximize (solver_newton.cpp)
    sv,                \* the locals of the running maximize() call, see MaximizeCall
    \* ---- LikelihoodMethods::confidence_intervals_profile (likelihood_methods.cpp)
    lm                 \* its locals and Solver::fixed_parameter_indices, see ProfileEnter

tapeVars   == <<n_input_size, n_trace_size, initial_values, operations, to_tape_map,
                spies, handles, last_call, ndebug>>
traceVars  == <<tstate, values, adjoints, hessian, hwidth, rpos, plays, prev_play>>
matVars    == <<ref, mat_ops>>
vars       == <<tapeVars, traceVars, matVars, sv, lm>>

(***************************************************************************)
(* Bounds of the model                                                     *)
(***************************************************************************)
\* largest trace (declared input slots plus operator output slots)
MaxSlots == 4
\* index range of the stand-alone sparse matrix exercise
MatWidth == 3
\* number of calls in the stand-alone sparse matrix exercise
MaxMatOps == 6
\* number of play() calls on one trace
MaxPlays == 3
\* largest max_iterations of a solver configuration
MaxIter == 1
\* largest max_regularization_attempts of a solver configuration
MaxRegul == 2
\* largest finite objective value seen by the solver
MaxObj == 4
\* number of bracket restrictions after which the bracket end has reached the
\* current point, where the objective is finite
MaxShrink == 2
\* largest magnitude of a trace value: keeps every product of the sweep inside
\* the integers of the model, where double arithmetic is exact
MaxAbsValue == 64

\* initial values of declared inputs
InputVals == {-1, 2}
\* increments written through an element reference
MatVals == {-1, 0, 1}

Range(f) == {f[x] : x \in DOMAIN f}

(***************************************************************************)
(* SPARSE SYMMETRIC MATRIX  (sparse_matrix.h)                              *)
(* matrix_t = std::map<index_t, std::map<index_t, double>>: a function     *)
(* from the stored rows to functions from the stored columns.              *)
(***************************************************************************)
EmptyMatrix == [i \in {} |-> [j \in {} |-> 0]]
EmptyRow == [j \in {} |-> 0]

HasRow(m, i) == i \in DOMAIN m
HasElem(m, i, j) == i \in DOMAIN m /\ j \in DOMAIN m[i]

\* SparseSymMat::read
read(m, i, j) == IF HasElem(m, i, j) THEN m[i][j] ELSE 0

\* the stored element (i, j) replaced by x
ElemSet(m, i, j, x) ==
    [r \in DOMAIN m |->
        IF r = i THEN [c \in DOMAIN m[r] |-> IF c = j THEN x ELSE m[r][c]] ELSE m[r]]

\* std::map::insert({k, v}): keeps an existing element
RowInsert(m, i) ==
    IF i \in DOMAIN m THEN m ELSE [r \in DOMAIN m \cup {i} |-> IF r = i THEN EmptyRow ELSE m[r]]
ElemInsert(m, i, j) ==
    IF j \in DOMAIN m[i] THEN m
    ELSE [r \in DOMAIN m |->
             IF r = i THEN [c \in DOMAIN m[i] \cup {j} |-> IF c = j THEN 0 ELSE m[i][c]]
             ELSE m[r]]

\* std::map::erase of an element / of a row
ElemErase(m, i, j) ==
    IF i \in DOMAIN m
    THEN [r \in DOMAIN m |-> IF r = i THEN [c \in DOMAIN m[i] \ {j} |-> m[i][c]] ELSE m[r]]
    ELSE m
RowErase(m, i) == [r \in DOMAIN m \ {i} |-> m[r]]

\* elem_ref_t::prepare_write
prepare_write(m, i, j) ==
    LET m1 == ElemInsert(RowInsert(m, i), i, j)
    IN  IF j # i THEN ElemInsert(RowInsert(m1, j), j, i) ELSE m1

\* elem_ref_t::set_zero on a reference whose iterators are valid
set_zero(m, i, j) ==
    LET m1 == ElemErase(m, i, j)
        m2 == IF DOMAIN m1[i] = {} THEN RowErase(m1, i) ELSE m1
    IN  IF j = i THEN m2
        ELSE LET m3 == ElemErase(m2, j, i)
             IN  IF HasRow(m3, j) /\ DOMAIN m3[j] = {} THEN RowErase(m3, j) ELSE m3

\* the mirrored write `ji->second += x` of operator+= dropped
PlusEqWrite_NoMirror(m, i, j, x) == ElemSet(m, i, j, m[i][j] + x)

\* elem_ref_t::operator+= after prepare_write: ij->second += x; ji->second += x
PlusEqWrite(m, i, j, x) ==
    IF j = i THEN ElemSet(m, i, j, m[i][j] + x)
    ELSE ElemSet(ElemSet(m, i, j, m[i][j] + x), j, i, m[j][i] + x)

\* elem_ref_t::operator= after prepare_write
AssignWrite(m, i, j, x) ==
    IF j = i THEN ElemSet(m, i, j, x)
    ELSE ElemSet(ElemSet(m, i, j, x), j, i, x)

\* `hessian.get(i, j) += x` on a temporary reference (is_valid_ij = false)
PlusEq(m, i, j, x) ==
    IF x = 0 THEN m ELSE PlusEqWrite(prepare_write(m, i, j), i, j, x)

\* a column sweep that erases nothing
EraseCols_None(m, i, cols) == m

\* SparseSymMat::erase: row i, and column i of every row that row i names
RECURSIVE EraseCols(_, _, _)
EraseCols(m, i, cols) ==
    IF cols = {} THEN m
    ELSE LET j == CHOOSE c \in cols : \A d \in cols : c <= d
             m1 == ElemErase(m, j, i)
             m2 == IF HasRow(m1, j) /\ DOMAIN m1[j] = {} THEN RowErase(m1, j) ELSE m1
         IN  IF j \in DOMAIN m THEN EraseCols(m2, i, cols \ {j})
             ELSE EraseCols(m, i, cols \ {j})   \* row_j == end(): nothing to erase

\* an erase that drops row i and leaves column i in the other rows
erase_RowOnly(m, i) == [r \in DOMAIN m \ {i} |-> m[r]]

erase(m, i) ==
    IF ~HasRow(m, i) THEN m
    ELSE RowErase(EraseCols(m, i, DOMAIN m[i] \ {i}), i)

(***************************************************************************)
(* State after construction: an empty Tape, no Trace, no element reference,*)
(* an idle Solver.                                                         *)
(***************************************************************************)
NoRef == [i |-> -1, j |-> -1, valid |-> FALSE, zeroed |-> FALSE]
NoPlay == [done |-> FALSE, dirty |-> FALSE]
NoCall == [call |-> "none", outcome |-> "ok"]
EmptyVec == [s \in {} |-> 0]
IdleSolver == [pc |-> "idle"]
IdleProfile == [pc |-> "idle"]

TapeInit ==
    /\ n_input_size = 0
    /\ n_trace_size = 0
    /\ initial_values = <<>>
    /\ operations = <<>>
    /\ to_tape_map = [t \in {} |-> 0]
    /\ spies = <<>>
    /\ handles = {}
    /\ last_call = NoCall
    /\ ndebug \in BOOLEAN

TraceInit ==
    /\ tstate = "none"
    /\ values = EmptyVec
    /\ adjoints = EmptyVec
    /\ hessian = EmptyMatrix
    /\ hwidth = 0
    /\ rpos = 0
    /\ plays = 0
    /\ prev_play = NoPlay

MatInit == ref = NoRef /\ mat_ops = 0

(***************************************************************************)
(* TAPE RECORDING  (tape.h, spy.h, op_base.h)                              *)
(***************************************************************************)
\* Tensors handed to the input-declaring constructors: [dim, val], len(val) = prod(dim)
ScalarTensors == {[dim |-> <<1>>, val |-> <<v>>] : v \in InputVals}
VectorTensors == {[dim |-> d, val |-> <<2, -1>>] : d \in {<<2>>, <<1, 2>>}}
Tensors == ScalarTensors \cup VectorTensors
\* ids of the nodes of a TensorMap
TensorIds == {1, 2}

\* the process is still running (a failed assert aborts a debug build)
Alive == last_call.outcome # "abort"

\* a bug that advances the input size by one slot whatever the tensor length
GrowInput_OneSlot(n, val) == n + 1

\* tape.n_input_size += val.size()  /  tape.n_trace_size += val.size()
GrowInput(n, val) == n + Len(val)

\* Spy::Spy(const Tensor&, Tape&): declare a free input from a value
DeclareInput(t) ==
    /\ Alive /\ tstate = "none"
    /\ n_trace_size + Len(t.val) <= MaxSlots
    /\ IF Len(operations) > 0
       THEN \* throw std::logic_error before any housekeeping
            /\ last_call' = [call |-> "spy", outcome |-> "logic_error",
                             had_ops |-> TRUE, is_new |-> TRUE]
            /\ UNCHANGED <<n_input_size, n_trace_size, initial_values, spies>>
       ELSE /\ n_input_size' = GrowInput(n_input_size, t.val)
            /\ n_trace_size' = GrowInput(n_trace_size, t.val)
            /\ initial_values' = initial_values \o t.val
            /\ spies' = Append(spies, [tape_begin |-> n_input_size, dim |-> t.dim, val |-> t.val])
            /\ last_call' = [call |-> "spy", outcome |-> "ok",
                             had_ops |-> FALSE, is_new |-> TRUE,
                             n_before |-> n_input_size, arg |-> t,
                             handle |-> [tape_begin |-> n_input_size, dim |-> t.dim, val |-> t.val]]
    /\ UNCHANGED <<operations, to_tape_map, handles, ndebug, traceVars, matVars, sv, lm>>

\* Spy::Spy(const TensorMap&, Tape&): declare a free input from a named tensor
DeclareInputMap(id, t) ==
    /\ Alive /\ tstate = "none"
    /\ IF id \in DOMAIN to_tape_map
       THEN \* already registered: reuse its tape id
            /\ last_call' = [call |-> "spy_map", outcome |-> "ok",
                             had_ops |-> Len(operations) > 0, is_new |-> FALSE]
            /\ UNCHANGED <<n_input_size, n_trace_size, initial_values, spies, to_tape_map>>
       ELSE IF Len(operations) > 0 /\ ~ndebug
       THEN \* assert(tape.operations.size() == 0) fails
            /\ last_call' = [call |-> "spy_map", outcome |-> "abort",
                             had_ops |-> TRUE, is_new |-> TRUE]
            /\ UNCHANGED <<n_input_size, n_trace_size, initial_values, spies, to_tape_map>>
       ELSE /\ n_trace_size + Len(t.val) <= MaxSlots
            /\ n_input_size' = GrowInput(n_input_size, t.val)
            /\ n_trace_size' = GrowInput(n_trace_size, t.val)
            /\ to_tape_map' = [k \in DOMAIN to_tape_map \cup {id} |->
                                  IF k = id THEN n_input_size ELSE to_tape_map[k]]
            /\ initial_values' = initial_values \o t.val
            /\ spies' = Append(spies, [tape_begin |-> n_input_size, dim |-> t.dim, val |-> t.val])
            /\ last_call' = [call |-> "spy_map", outcome |-> "ok",
                             had_ops |-> Len(operations) > 0, is_new |-> TRUE,
                             n_before |-> n_input_size, arg |-> t,
                             handle |-> [tape_begin |-> n_input_size, dim |-> t.dim, val |-> t.val]]
    /\ UNCHANGED <<operations, handles, ndebug, traceVars, matVars, sv, lm>>

\* Operator families of the model.  An operator record is
\*   [kind, in, nleft, out]: `in` the vectorized input slots (left operand first),
\*   nleft the size of the left operand, `out` the output slots.
ScalarScalarKinds == {"PlusScalarScalar", "MinusScalarScalar", "MultiplyScalarScalar"}
UnaryKinds == {"SquareScalar", "CubeScalar"}
\* every operator family over a single scalar operand (OpIn::Array<1>)
Array1Kinds ==
    UnaryKinds \cup {"IdentityScalar", "TrivialScalar<0>", "TrivialScalar<1>", "InvertScalar",
                     "SelfPowerScalar", "MultiplyScalarScalar<true,false>",
                     "PowerScalarScalar<true,false>"}
RangeKinds == {"SquareVector"}
ScalarKinds == ScalarScalarKinds \cup UnaryKinds

\* OpOut::Scalar::output_range_size / OpOutSize::Range_None_RangeSize
output_range_size(kind, in) == IF kind \in RangeKinds THEN Len(in) ELSE 1

SlotSeq(b, n) == [k \in 1 .. n |-> b + k - 1]

\* a bug that counts every operator as one output slot
op_register_size_One(n, out) == n + 1

\* Tape::op_register: n_trace_size += operation.out.size()
op_register_size(n, out) == n + Len(out)

\* Tape::rec<OP>(in): append the operator, its output at trace_size()
Rec(kind, in, nleft) ==
    /\ Alive /\ tstate = "none"
    /\ n_input_size > 0
    /\ LET out_begin == n_trace_size
           out == SlotSeq(out_begin, output_range_size(kind, in))
       IN  /\ out_begin + Len(out) <= MaxSlots
           /\ operations' = Append(operations,
                  [kind |-> kind, in |-> in, nleft |-> nleft, out |-> out])
           /\ n_trace_size' = op_register_size(n_trace_size, out)
           /\ last_call' = [call |-> "rec", outcome |-> "ok", out_begin |-> out_begin]
    /\ UNCHANGED <<n_input_size, initial_values, to_tape_map, spies, handles, ndebug,
                   traceVars, matVars, sv, lm>>

\* the trace ranges a Spy can cover: a declared input or an operator output
HandleRanges ==
    {SlotSeq(spies[k].tape_begin, Len(spies[k].val)) : k \in 1 .. Len(spies)}
        \cup {operations[k].out : k \in 1 .. Len(operations)}

\* recording a scalar (op) scalar operator on two distinct slots
RecScalarScalar(kinds) ==
    \E kind \in kinds : \E l \in 0 .. (n_trace_size - 1) :
        \E r \in 0 .. (n_trace_size - 1) :
            l # r /\ Rec(kind, <<l, r>>, 1)

\* recording a unary scalar operator
RecUnary(kinds) ==
    \E kind \in kinds : \E j \in 0 .. (n_trace_size - 1) : Rec(kind, <<j>>, 1)

\* recording an element-wise operator over the whole range of a vector handle
RecRange ==
    \E kind \in RangeKinds : \E rg \in HandleRanges :
        Len(rg) > 1 /\ Rec(kind, rg, Len(rg))

\* Trace::Trace(Tape&)
TraceConstruct ==
    /\ Alive /\ tstate = "none"
    /\ n_trace_size > 0
    /\ tstate' = "ready"
    /\ values' = [s \in 0 .. (n_trace_size - 1) |->
                     IF s < Len(initial_values) THEN initial_values[s + 1] ELSE 0]
    /\ adjoints' = [s \in 0 .. (n_trace_size - 1) |-> 0]
    /\ hessian' = EmptyMatrix
    /\ hwidth' = n_input_size
    /\ UNCHANGED <<tapeVars, rpos, plays, prev_play, matVars, sv, lm>>

TapeNext ==
    \/ \E t \in Tensors : DeclareInput(t)
    \/ \E id \in TensorIds : \E t \in Tensors : DeclareInputMap(id, t)
    \/ RecScalarScalar({"PlusScalarScalar"})
    \/ RecUnary({"SquareScalar"})
    \/ RecRange
    \/ TraceConstruct

(***************************************************************************)
(* OPERATORS  (op_plus.h, op_minus.h, op_multiply.h, op_unary.h)           *)
(* Local indices are 0-based as in the source; `in` is a 1-based sequence. *)
(***************************************************************************)
\* OP::evaluate, the value written to output element il
evaluate(op, v, il) ==
    LET a == v[op.in[1]]
        b == IF Len(op.in) > 1 THEN v[op.in[2]] ELSE 0
    IN  CASE op.kind = "PlusScalarScalar" -> a + b
          [] op.kind = "MinusScalarScalar" -> a - b
          [] op.kind = "MultiplyScalarScalar" -> a * b
          [] op.kind = "SquareScalar" -> a * a
          [] op.kind = "CubeScalar" -> a * a * a
          [] op.kind = "SquareVector" -> v[op.in[il + 1]] * v[op.in[il + 1]]
          [] op.kind = "IdentityScalar" -> a
          [] op.kind = "TrivialScalar<0>" -> 0
          [] op.kind = "TrivialScalar<1>" -> 1
          [] op.kind = "MultiplyScalarScalar<true,false>" -> a * op.constant[1]

\* a first derivative that is one whatever the operator
partial_One(op, v, il, jl) == 1

\* OP::LocalDiff::partial(i, j): d out[il] / d in[jl]
partial(op, v, il, jl) ==
    LET x == v[op.in[1]]
    IN  CASE op.kind = "PlusScalarScalar" -> 1
          [] op.kind = "MinusScalarScalar" -> IF jl = 1 THEN -1 ELSE 1
          [] op.kind = "MultiplyScalarScalar" -> IF jl = 0 THEN v[op.in[2]] ELSE v[op.in[1]]
          [] op.kind = "SquareScalar" -> 2 * x
          [] op.kind = "CubeScalar" -> 3 * x * x
          [] op.kind = "SquareVector" -> IF jl # il THEN 0 ELSE 2 * v[op.in[il + 1]]
          [] op.kind = "IdentityScalar" -> 1
          [] op.kind \in {"TrivialScalar<0>", "TrivialScalar<1>"} -> 0
          [] op.kind = "MultiplyScalarScalar<true,false>" -> op.constant[1]

\* OP::LocalDiff::partial(i, j, k): d2 out[il] / d in[jl] d in[kl]
partial2(op, v, il, jl, kl) ==
    LET x == v[op.in[1]]
    IN  CASE op.kind = "PlusScalarScalar" -> 0
          [] op.kind = "MinusScalarScalar" -> 0
          [] op.kind = "MultiplyScalarScalar" -> IF jl = kl THEN 0 ELSE 1
          [] op.kind = "SquareScalar" -> 2
          [] op.kind = "CubeScalar" -> 6 * x
          [] op.kind = "SquareVector" -> IF jl # il \/ kl # il THEN 0 ELSE 2
          [] op.kind \in {"IdentityScalar", "TrivialScalar<0>", "TrivialScalar<1>",
                          "MultiplyScalarScalar<true,false>"} -> 0

\* operator tags (op_base.h) carried by the operator families
HessianDiagAlwaysZero(kind) ==
    kind \in ScalarScalarKinds \cup {"IdentityScalar", "TrivialScalar<0>", "TrivialScalar<1>",
                                     "MultiplyScalarScalar<true,false>"}
HessianOffDiagAlwaysZero(kind) ==
    kind \in {"PlusScalarScalar", "MinusScalarScalar",
              "IdentityScalar", "TrivialScalar<0>", "TrivialScalar<1>"}

(***************************************************************************)
(* TRACE PLAYBACK  (tape_autodiff.cpp)                                     *)
(***************************************************************************)
\* OpVariantForward on one operator: every output element is written
RECURSIVE EvaluateOp(_, _, _)
EvaluateOp(op, v, il) ==
    IF il >= Len(op.out) THEN v
    ELSE EvaluateOp(op, [s \in DOMAIN v |->
                            IF s = op.out[il + 1] THEN evaluate(op, v, il) ELSE v[s]], il + 1)

\* Tape::play_forward: the operators in recording order
RECURSIVE play_forward(_, _)
play_forward(ops, v) ==
    IF ops = <<>> THEN v ELSE play_forward(Tail(ops), EvaluateOp(Head(ops), v, 0))

\* an adjoint update that overwrites instead of accumulating
AdjointAdd_Overwrite(adj, j, x) == [s \in DOMAIN adj |-> IF s = j THEN x ELSE adj[s]]

\* trace.adjoints[j] += x
AdjointAdd(adj, j, x) == [s \in DOMAIN adj |-> IF s = j THEN adj[s] + x ELSE adj[s]]

\* ADJOINT UPDATE of output element il with adjoint w
adjoint_update(op, v, il, w, adj) ==
    IF w = 0 THEN adj
    ELSE IF op.kind \in Array1Kinds
    THEN AdjointAdd(adj, op.in[1], partial(op, v, il, 0) * w)
    ELSE IF op.kind \in ScalarScalarKinds
    THEN AdjointAdd(AdjointAdd(adj, op.in[1], partial(op, v, il, 0) * w),
                    op.in[2], partial(op, v, il, 1) * w)
    ELSE \* element-wise over a single range: j = i
         AdjointAdd(adj, op.in[il + 1], partial(op, v, il, il) * w)

\* generic iterable input of pushing part 1: every operand k_in of the operator
RECURSIVE Push1Generic(_, _, _, _, _, _, _)
Push1Generic(op, v, il, m, j, h_ij, k_in) ==
    IF k_in >= Len(op.in) THEN m
    ELSE LET didk == partial(op, v, il, k_in)
         IN  Push1Generic(op, v, il,
                 IF didk = 0 THEN m ELSE PlusEq(m, j, op.in[k_in + 1], didk * h_ij),
                 j, h_ij, k_in + 1)

\* body of the pushing part 1 loop for the entry (i, j) of row i, j # i
Push1Entry(op, v, il, m, j, h_ij) ==
    IF op.kind \in Array1Kinds
    THEN LET didk == partial(op, v, il, 0)
         IN  IF didk # 0 THEN PlusEq(m, j, op.in[1], didk * h_ij) ELSE m
    ELSE IF op.kind \in ScalarScalarKinds
    THEN LET didk == partial(op, v, il, 0)
             didl == partial(op, v, il, 1)
             m1 == IF didk # 0 THEN PlusEq(m, j, op.in[1], didk * h_ij) ELSE m
         IN  IF didl # 0 THEN PlusEq(m1, j, op.in[2], didl * h_ij) ELSE m1
    ELSE Push1Generic(op, v, il, m, j, h_ij, 0)

\* PUSHING PART 1: the entries of row i in ascending column order.  The writes
\* go to rows j and k, both different from i, so row i is the same map
\* throughout the loop; `cols` are its columns still to be visited.
RECURSIVE pushing_part_1(_, _, _, _, _, _)
pushing_part_1(op, v, il, i, m, cols) ==
    IF cols = {} THEN m
    ELSE LET j == CHOOSE c \in cols : \A d \in cols : c <= d
         IN  pushing_part_1(op, v, il, i,
                 IF j = i THEN m ELSE Push1Entry(op, v, il, m, j, m[i][j]),
                 cols \ {j})

\* N-ary input of pushing part 2: unordered operand pairs (j_in, k_in), k_in >= j_in
RECURSIVE Push2Generic(_, _, _, _, _, _, _)
Push2Generic(op, v, il, m, r_i, j_in, k_in) ==
    IF j_in >= Len(op.in) THEN m
    ELSE IF k_in >= Len(op.in) \/ partial(op, v, il, j_in) = 0
    THEN Push2Generic(op, v, il, m, r_i, j_in + 1, j_in + 1)
    ELSE LET didj == partial(op, v, il, j_in)
             didk == partial(op, v, il, k_in)
         IN  Push2Generic(op, v, il,
                 IF didk = 0 THEN m
                 ELSE PlusEq(m, op.in[j_in + 1], op.in[k_in + 1], didj * didk * r_i),
                 r_i, j_in, k_in + 1)

\* PUSHING PART 2: row i holds the diagonal entry r_i = h(i, i)
pushing_part_2(op, v, il, i, m) ==
    IF ~HasElem(m, i, i) THEN m
    ELSE LET r_i == m[i][i]
         IN  IF op.kind \in Array1Kinds
             THEN LET didj == partial(op, v, il, 0)
                  IN  IF didj # 0 THEN PlusEq(m, op.in[1], op.in[1], didj * didj * r_i) ELSE m
             ELSE IF op.kind \in ScalarScalarKinds
             THEN LET didj == partial(op, v, il, 0)
                      didk == partial(op, v, il, 1)
                      m1 == IF didj # 0 THEN PlusEq(m, op.in[1], op.in[1], didj * didj * r_i) ELSE m
                      m2 == IF didk # 0 THEN PlusEq(m1, op.in[2], op.in[2], didk * didk * r_i) ELSE m1
                  IN  IF didj * didk # 0
                      THEN PlusEq(m2, op.in[1], op.in[2], didj * didk * r_i) ELSE m2
             ELSE Push2Generic(op, v, il, m, r_i, 0, 0)

\* creating_part_unary: h(j, j) += d2i/dj2 . a(i)
creating_part_unary(op, v, m, w, il, jl) ==
    IF HessianDiagAlwaysZero(op.kind) THEN m
    ELSE LET d2idj2 == partial2(op, v, il, jl, jl)
         IN  IF d2idj2 # 0 THEN PlusEq(m, op.in[jl + 1], op.in[jl + 1], d2idj2 * w) ELSE m

\* creating_part_binary: h(j, j), h(k, k) and h(j, k)
creating_part_binary(op, v, m, w, il, jl, kl) ==
    LET j == op.in[jl + 1]
        k == op.in[kl + 1]
        d2idj2 == partial2(op, v, il, jl, jl)
        d2idk2 == partial2(op, v, il, kl, kl)
        d2idjdk == partial2(op, v, il, jl, kl)
        m1 == IF ~HessianDiagAlwaysZero(op.kind) /\ d2idj2 # 0
              THEN PlusEq(m, j, j, d2idj2 * w) ELSE m
        m2 == IF ~HessianDiagAlwaysZero(op.kind) /\ d2idk2 # 0
              THEN PlusEq(m1, k, k, d2idk2 * w) ELSE m1
    IN  IF ~HessianOffDiagAlwaysZero(op.kind) /\ d2idjdk # 0
        THEN PlusEq(m2, j, k, d2idjdk * w) ELSE m2

\* CREATING PART of output element il with adjoint w
creating_part(op, v, il, w, m) ==
    IF w = 0 THEN m
    ELSE IF op.kind \in Array1Kinds THEN creating_part_unary(op, v, m, w, il, 0)
    ELSE IF op.kind \in ScalarScalarKinds THEN creating_part_binary(op, v, m, w, il, 0, 1)
    ELSE creating_part_unary(op, v, m, w, il, il)

\* OpVariantReverse::operator() for output element il.  st = [adj, hes, ok];
\* ok = FALSE when assert(r_i != 0.0) stops a debug build before pushing part 2.
VisitOutput(op, v, il, st) ==
    LET i == op.out[il + 1]
        w == st.adj[i]
        adj1 == adjoint_update(op, v, il, w, st.adj)
        r == HasRow(st.hes, i)                       \* get_row_ptr(i) != nullptr
        m1 == IF r THEN pushing_part_1(op, v, il, i, st.hes, DOMAIN st.hes[i]) ELSE st.hes
        stop == r /\ HasElem(m1, i, i) /\ m1[i][i] = 0 /\ ~ndebug
        m2 == IF r THEN pushing_part_2(op, v, il, i, m1) ELSE m1
        m3 == creating_part(op, v, il, w, m2)
        m4 == IF r THEN erase(m3, i) ELSE m3         \* housekeeping part
    IN  IF stop THEN [adj |-> adj1, hes |-> m1, ok |-> FALSE]
        ELSE [adj |-> adj1, hes |-> m4, ok |-> TRUE]

\* the loop over the outputs of one operator
RECURSIVE OpVariantReverse(_, _, _, _)
OpVariantReverse(op, v, il, st) ==
    IF il >= Len(op.out) \/ ~st.ok THEN st
    ELSE OpVariantReverse(op, v, il + 1, VisitOutput(op, v, il, st))

\* play_reverse left out its `trace.hessian.matrix.clear()`
hessian_clear_Skipped(m) == m

\* trace.hessian.matrix.clear()
hessian_clear(m) == EmptyMatrix

\* Tape::play up to the reverse loop: play_forward, then play_reverse clears the
\* adjoints, seeds the last slot and clears the Hessian
PlayStart ==
    /\ Alive /\ tstate \in {"ready", "played"}
    /\ plays < MaxPlays
    /\ values' = play_forward(operations, values)
    /\ adjoints' = [s \in DOMAIN adjoints |-> IF s = n_trace_size - 1 THEN 1 ELSE 0]
    /\ hessian' = hessian_clear(hessian)
    /\ rpos' = Len(operations)
    /\ tstate' = IF operations = <<>> THEN "played" ELSE "reverse"
    /\ plays' = IF operations = <<>> THEN plays + 1 ELSE plays
    /\ prev_play' = IF tstate = "played"
                    THEN [done |-> TRUE, dirty |-> prev_play.dirty, values |-> values,
                          adjoints |-> adjoints, hessian |-> hessian]
                    ELSE [done |-> FALSE, dirty |-> prev_play.dirty]
    /\ UNCHANGED <<tapeVars, hwidth, matVars, sv, lm>>

\* one iteration of the reverse loop of play_reverse: visit operations[rpos]
ReverseStep ==
    /\ Alive /\ tstate = "reverse" /\ rpos > 0
    /\ LET st == OpVariantReverse(operations[rpos], values, 0,
                                  [adj |-> adjoints, hes |-> hessian, ok |-> TRUE])
       IN  /\ adjoints' = st.adj
           /\ hessian' = st.hes
           /\ IF st.ok
              THEN /\ rpos' = rpos - 1
                   /\ tstate' = IF rpos = 1 THEN "played" ELSE "reverse"
                   /\ plays' = IF rpos = 1 THEN plays + 1 ELSE plays
                   /\ UNCHANGED last_call
              ELSE /\ last_call' = [call |-> "play", outcome |-> "abort"]
                   /\ UNCHANGED <<rpos, tstate, plays>>
    /\ UNCHANGED <<n_input_size, n_trace_size, initial_values, operations, to_tape_map,
                   spies, handles, ndebug, values, hwidth, prev_play, matVars, sv, lm>>

\* what a caller may have left in the public vectors of a fresh trace
JunkVal == 7

\* the caller overwrites output slots, adjoints and Hessian entries of the trace
\* (Trace::values, Trace::adjoints and Trace::hessian are public members)
Scribble ==
    /\ Alive /\ tstate = "ready" /\ ~prev_play.dirty
    /\ values' = [s \in DOMAIN values |-> IF s < n_input_size THEN values[s] ELSE JunkVal]
    /\ adjoints' = [s \in DOMAIN adjoints |-> JunkVal]
    /\ hessian' = PlusEq(PlusEq(hessian, 0, 0, JunkVal), 0, n_input_size - 1, JunkVal)
    /\ prev_play' = [done |-> FALSE, dirty |-> TRUE]
    /\ UNCHANGED <<tapeVars, tstate, hwidth, rpos, plays, matVars, sv, lm>>

\* Trace::operator[] (non-const): the caller moves an input to another value
SetInput(k, x) ==
    /\ Alive /\ tstate = "played" /\ plays < MaxPlays
    /\ k < n_input_size /\ x # values[k]
    /\ values' = [values EXCEPT ![k] = x]
    /\ tstate' = "ready"
    /\ prev_play' = NoPlay
    /\ UNCHANGED <<tapeVars, adjoints, hessian, hwidth, rpos, plays, matVars, sv, lm>>

\* the values of the tape, computed operator by operator, stay within MaxAbsValue
RECURSIVE ValuesFit(_, _)
ValuesFit(ops, v) ==
    IF ops = <<>> THEN TRUE
    ELSE LET v1 == EvaluateOp(Head(ops), v, 0)
         IN  /\ \A il \in 1 .. Len(Head(ops).out) :
                    /\ v1[Head(ops).out[il]] <= MaxAbsValue
                    /\ v1[Head(ops).out[il]] >= -MaxAbsValue
             /\ ValuesFit(Tail(ops), v1)

\* tensors declared in the playback runs
ADTensors == ScalarTensors \cup {[dim |-> <<2>>, val |-> <<2, -1>>]}

ADNext ==
    \/ \E t \in ADTensors : operations = <<>> /\ DeclareInput(t)
    \/ RecScalarScalar(ScalarScalarKinds)
    \/ RecUnary(UnaryKinds)
    \/ RecRange
    \/ TraceConstruct /\ ValuesFit(operations, values')
    \/ PlayStart
    \/ ReverseStep
    \/ Scribble
    \/ \E k \in 0 .. (MaxSlots - 1) : \E x \in InputVals :
           SetInput(k, x) /\ ValuesFit(operations, values')

(***************************************************************************)
(* EXPRESSION BUILDER  (spy.h, spy_plus.cpp, spy_minus.cpp, spy_divide.cpp,*)
(* spy_power.cpp, tensor.h)                                                *)
(* A handle is [tape_begin, dim]; the tensor value a Spy carries plays no  *)
(* part in the dispatch on two handles and is not kept.  An operator       *)
(* recorded by the builder is [kind, in, nleft, constant, out].            *)
(***************************************************************************)
\* largest trace recorded through the overloads
MaxSpySlots == 6
\* largest number of operators recorded through the overloads
MaxSpyOps == 1
\* largest number of inputs declared before the overloads are used
MaxSpies == 2

\* the loop of TensorDim::product: n *= ndim
RECURSIVE ProductLoop(_)
ProductLoop(vec) == IF vec = <<>> THEN 1 ELSE Head(vec) * ProductLoop(Tail(vec))

\* TensorDim::product
product(vec) == IF Len(vec) = 0 THEN 0 ELSE ProductLoop(vec)

\* TensorDim::size
size(dim) == product(dim)

\* TensorDim::is_scalar
is_scalar(dim) == size(dim) = 1

\* Spy(tensor, tape, tape_id)
Handle(tape_id, dim) == [tape_begin |-> tape_id, dim |-> dim]

\* Spy::operator IndexRange: [tape_begin, tape_end)
tape_range(h) == SlotSeq(h.tape_begin, size(h.dim))

\* the handles the host holds: declared inputs and results of overloads
WholeHandles ==
    {Handle(spies[k].tape_begin, spies[k].dim) : k \in 1 .. Len(spies)} \cup handles

\* Tensor::vec_index_is_valid
vec_index_is_valid(h, vi) == vi >= 0 /\ vi < size(h.dim)

\* the handle built by Spy::operator[]: Spy(val[i], tape, tape_begin() + i)
Element(h, i) == Handle(h.tape_begin + i, <<1>>)

\* operands of an overload: a handle the host holds or one of its elements
SpyOperands ==
    WholeHandles \cup UNION {{Element(h, i) : i \in 0 .. (size(h.dim) - 1)} : h \in WholeHandles}

\* the element-wise binary overloads
BinaryOverloads == {"+", "-", "/", "^"}

\* the trivial case test of the Spy-Spy overloads compares the first slots
SameSlot_Never(a, b) == FALSE

\* a.tape_begin() == b.tape_begin()
SameSlot(a, b) == a.tape_begin = b.tape_begin

\* operator recorded in the trivial case on a scalar
SelfScalarKind(f) ==
    CASE f = "+" -> "MultiplyScalarScalar<true,false>"
      [] f = "-" -> "TrivialScalar<0>"
      [] f = "/" -> "TrivialScalar<1>"
      [] f = "^" -> "SelfPowerScalar"

\* operator recorded in the trivial case on a vector
SelfVectorKind(f) ==
    CASE f = "+" -> "MultiplyVectorScalar<true,false>"
      [] f = "-" -> "TrivialVector<0>"
      [] f = "/" -> "TrivialVector<1>"
      [] f = "^" -> "SelfPowerVector"

\* operator families with both operands free
ScalarScalarKind(f) ==
    CASE f = "+" -> "PlusScalarScalar"
      [] f = "-" -> "MinusScalarScalar"
      [] f = "/" -> "DivideScalarScalar"
      [] f = "^" -> "PowerScalarScalar"

VectorVectorKind(f) ==
    CASE f = "+" -> "PlusVectorVector"
      [] f = "-" -> "MinusVectorVector"
      [] f = "/" -> "DivideVectorVector"
      [] f = "^" -> "PowerVectorVector"

VectorScalarKind(f) ==
    CASE f = "+" -> "PlusVectorScalar"
      [] f = "-" -> "MinusVectorScalar"
      [] f = "/" -> "DivideVectorScalar"
      [] f = "^" -> "PowerVectorScalar"

\* scalar (op) vector; the sum is recorded as vector + scalar on {b, a}
ScalarVectorKind(f) ==
    CASE f = "+" -> "PlusVectorScalar"
      [] f = "-" -> "MinusScalarVector"
      [] f = "/" -> "DivideScalarVector"
      [] f = "^" -> "PowerScalarVector"

\* kinds by input signature (op_base.h OpIn)
RangeArrayPairKinds == {VectorScalarKind(f) : f \in BinaryOverloads}
ArrayRangePairKinds == {ScalarVectorKind(f) : f \in BinaryOverloads \ {"+"}}
RangePairKinds == {VectorVectorKind(f) : f \in BinaryOverloads}

\* operators with a scalar output (OpOut::Scalar)
ScalarOutKinds ==
    Array1Kinds \cup {ScalarScalarKind(f) : f \in BinaryOverloads}
                \cup {"MultiplyScalarScalar", "AggregSumOfSquares", "AggregDotProd"}

\* OP::output_range_size(in, constant) of the OpOutSize rules, 1 for OpOut::Scalar
OpOutSize(op) ==
    IF op.kind \in ScalarOutKinds THEN 1
    ELSE IF op.kind = "MultiplyMatrixMatrix" THEN op.left_dim[1] * op.right_dim[2]
    ELSE IF op.kind \in RangeArrayPairKinds \cup RangePairKinds THEN op.nleft
    ELSE IF op.kind \in ArrayRangePairKinds THEN Len(op.in) - op.nleft
    ELSE Len(op.in)

\* an operator instance before its output is assigned
Op(kind, in, nleft, constant) ==
    [kind |-> kind, in |-> in, nleft |-> nleft, constant |-> constant]

\* dimension of operator+(Tensor, Tensor) and pow(Tensor, Tensor); <<>> when the
\* dimensions are incompatible
TensorBinaryDim(adim, bdim) ==
    IF adim = bdim THEN adim
    ELSE IF is_scalar(adim) THEN bdim
    ELSE IF is_scalar(bdim) THEN adim
    ELSE <<>>

\* two slot ranges share a slot
RangesOverlap(ra, rb) ==
    \E x \in 1 .. Len(ra) : \E y \in 1 .. Len(rb) : ra[x] = rb[y]

\* Spy (op) Spy: what the overload does, as
\*   [outcome, recorded, op, dim]: outcome "ok" | "logic_error" | "abort",
\*   recorded whether tape.rec was called, op the operator, dim of the result.
SpySpy(f, a, b) ==
    LET sa == is_scalar(a.dim)
        ra == tape_range(a)
        rb == tape_range(b)
        tdim == TensorBinaryDim(a.dim, b.dim)
        none == Op("none", <<>>, 0, <<>>)
    IN  IF SameSlot(a, b)
        THEN IF a.dim # b.dim /\ ~ndebug
             THEN \* assert(a.dim == b.dim)
                  [outcome |-> "abort", recorded |-> FALSE, op |-> none, dim |-> <<>>]
             ELSE LET op == IF sa
                            THEN Op(SelfScalarKind(f), <<a.tape_begin>>, 1,
                                    IF f = "+" THEN <<2>> ELSE <<>>)
                            ELSE Op(SelfVectorKind(f), ra, Len(ra),
                                    IF f = "+" THEN <<2>> ELSE <<>>)
                  IN  IF f \in {"-", "/"}
                      THEN \* return Spy(Tensor(a.dim).fill(.), a.tape, out)
                           [outcome |-> "ok", recorded |-> TRUE, op |-> op, dim |-> a.dim]
                      ELSE IF tdim = <<>>
                      THEN \* the Tensor overload fails once the operator is on the tape
                           [outcome |-> IF ndebug THEN "logic_error" ELSE "abort",
                            recorded |-> TRUE, op |-> op, dim |-> <<>>]
                      ELSE [outcome |-> "ok", recorded |-> TRUE, op |-> op, dim |-> tdim]
        ELSE IF a.dim = b.dim
        THEN [outcome |-> "ok", recorded |-> TRUE, dim |-> tdim,
              op |-> IF sa THEN Op(ScalarScalarKind(f), <<a.tape_begin, b.tape_begin>>, 1, <<>>)
                     ELSE Op(VectorVectorKind(f), ra \o rb, Len(ra), <<>>)]
        ELSE IF (sa \/ is_scalar(b.dim)) /\ ~ndebug /\ RangesOverlap(ra, rb)
        THEN \* the constructor of the operator asserts that the scalar is
             \* outside the range of the vector
             [outcome |-> "abort", recorded |-> FALSE, op |-> none, dim |-> <<>>]
        ELSE IF sa
        THEN [outcome |-> "ok", recorded |-> TRUE, dim |-> tdim,
              op |-> IF f = "+" THEN Op(ScalarVectorKind(f), rb \o ra, Len(rb), <<>>)
                     ELSE Op(ScalarVectorKind(f), ra \o rb, 1, <<>>)]
        ELSE IF is_scalar(b.dim)
        THEN [outcome |-> "ok", recorded |-> TRUE, dim |-> tdim,
              op |-> Op(VectorScalarKind(f), ra \o rb, Len(ra), <<>>)]
        ELSE \* assert(false); throw std::logic_error("Uncompatible tensor dimensions")
             [outcome |-> IF ndebug THEN "logic_error" ELSE "abort",
              recorded |-> FALSE, op |-> none, dim |-> <<>>]

\* exponents handed to pow(Spy, double)
Exponents == {-1, 0, 1, 2, 3, 4}

\* pow(const Spy&, const Tensor&) with a scalar exponent b
SpyPow(a, b) ==
    LET sa == is_scalar(a.dim)
        in == IF sa THEN <<a.tape_begin>> ELSE tape_range(a)
        kind == CASE b = -1 -> IF sa THEN "InvertScalar" ELSE "InvertVector"
                  [] b = 0 -> IF sa THEN "TrivialScalar<1>" ELSE "TrivialVector<1>"
                  [] b = 1 -> IF sa THEN "IdentityScalar" ELSE "IdentityVector"
                  [] b = 2 -> IF sa THEN "SquareScalar" ELSE "SquareVector"
                  [] b = 3 -> IF sa THEN "CubeScalar" ELSE "CubeVector"
                  [] OTHER -> IF a.dim = <<1>> THEN "PowerScalarScalar<true,false>"
                              ELSE IF sa THEN "PowerScalarVector<true,false>"
                              ELSE "PowerVectorScalar<true,false>"
    IN  [outcome |-> "ok", recorded |-> TRUE, dim |-> TensorBinaryDim(a.dim, <<1>>),
         op |-> Op(kind, in, Len(in), IF b \in {-1, 0, 1, 2, 3} THEN <<>> ELSE <<b>>)]

\* the tape and the host after a call that did d: Tape::rec, when called,
\* appends the operator at trace_size() and the call returns
\* Spy(tensor, tape, out); a call that records nothing returns the handle d.at
Overload(call, d) ==
    /\ Alive /\ tstate = "none"
    /\ LET out_begin == n_trace_size
           out == IF d.recorded THEN SlotSeq(out_begin, OpOutSize(d.op)) ELSE <<>>
           handle == IF d.outcome # "ok" THEN Handle(-1, <<>>)
                     ELSE IF d.recorded THEN Handle(out_begin, d.dim)
                     ELSE d.at
       IN  /\ out_begin + Len(out) <= MaxSpySlots
           /\ operations' = IF d.recorded
                            THEN Append(operations,
                                     [x \in DOMAIN d.op \cup {"out"} |->
                                         IF x = "out" THEN out ELSE d.op[x]])
                            ELSE operations
           /\ n_trace_size' = IF d.recorded THEN op_register_size(n_trace_size, out)
                              ELSE n_trace_size
           /\ handles' = IF d.outcome = "ok" /\ d.recorded THEN handles \cup {handle}
                         ELSE handles
           /\ last_call' = [call |-> call.call, args |-> call, outcome |-> d.outcome,
                            ops_before |-> operations,
                            sizes_before |-> <<n_input_size, n_trace_size, initial_values>>,
                            handle |-> handle]
    /\ UNCHANGED <<n_input_size, initial_values, to_tape_map, spies, ndebug,
                   traceVars, matVars, sv, lm>>

\* a (op) b on two handles
SpyBinary ==
    \E f \in BinaryOverloads : \E a \in SpyOperands : \E b \in SpyOperands :
        Len(operations) < MaxSpyOps /\ Overload([call |-> "binary", f |-> f, a |-> a, b |-> b], SpySpy(f, a, b))

\* pow(a, b) with a literal exponent
SpyPowLiteral ==
    \E a \in SpyOperands : \E b \in Exponents :
        Len(operations) < MaxSpyOps /\ Overload([call |-> "pow", a |-> a, b |-> b], SpyPow(a, b))

\* dot(a, b) on two handles: the lengths are compared by an assert only.  The
\* same slot gives sumsq(a); otherwise the operator is recorded and then
\* dot(Tensor, Tensor) reads b.val[i] for every i below the length of a, which
\* is a read past the end of b.val when b is shorter: the call returns a value
\* or the process dies
dot(a, b) ==
    LET ra == tape_range(a)
        rb == tape_range(b)
    IN  IF ~ndebug /\ size(a.dim) # size(b.dim)
        THEN {[outcome |-> "abort", recorded |-> FALSE]}
        ELSE IF SameSlot(a, b)
        THEN {[outcome |-> "ok", recorded |-> TRUE, dim |-> <<1>>,
               op |-> Op("AggregSumOfSquares", ra, Len(ra), <<>>)]}
        ELSE {[outcome |-> o, recorded |-> TRUE, dim |-> <<1>>,
               op |-> IF is_scalar(a.dim)
                      THEN Op("MultiplyScalarScalar", <<a.tape_begin, b.tape_begin>>, 1, <<>>)
                      ELSE Op("AggregDotProd", ra \o rb, Len(ra), <<>>)] :
                  o \in IF size(b.dim) < size(a.dim) THEN {"ok", "abort"} ELSE {"ok"}}

\* matmult(a, b) on two matrix handles: the operator is recorded with the
\* shapes as they are (its constructor asserts that the two operands differ),
\* then the product of the two tensors is computed by Eigen, which asserts the
\* inner dimensions in a debug build and reads whatever it finds otherwise
matmult(a, b) ==
    IF ~ndebug /\ SameSlot(a, b)
    THEN {[outcome |-> "abort", recorded |-> FALSE]}
    ELSE {[outcome |-> o, recorded |-> TRUE, dim |-> <<a.dim[1], b.dim[2]>>,
           op |-> [kind |-> "MultiplyMatrixMatrix", in |-> tape_range(a) \o tape_range(b),
                   nleft |-> size(a.dim), constant |-> <<>>,
                   left_dim |-> a.dim, right_dim |-> b.dim]] :
              o \in IF a.dim[2] = b.dim[1] THEN {"ok"}
                    ELSE IF ndebug THEN {"ok", "abort"} ELSE {"abort"}}

\* dot(a, b) called by the host
SpyDot ==
    \E a \in SpyOperands : \E b \in SpyOperands : \E d \in dot(a, b) :
        Len(operations) < MaxSpyOps /\ Overload([call |-> "dot", a |-> a, b |-> b], d)

\* matmult(a, b) called by the host on two matrices
SpyMatmult ==
    \E a \in {h \in WholeHandles : Len(h.dim) = 2} :
    \E b \in {h \in WholeHandles : Len(h.dim) = 2} : \E d \in matmult(a, b) :
        /\ Len(operations) < MaxSpyOps
        /\ Overload([call |-> "matmult", a |-> a, b |-> b], d)

\* the element access of a copy: Spy(const Spy&) records an identity operator
\* and the handle is on its output
operator_bracket_Copy(h, i) ==
    {[outcome |-> "ok", recorded |-> TRUE, dim |-> <<1>>,
      op |-> Op("IdentityScalar", <<h.tape_begin + i>>, 1, <<>>)]}

\* Spy::operator[](i): the subscript is tested by an assert only, then
\* Spy(val[i], tape, tape_begin() + i) is built by the registering constructor,
\* which records nothing.  With NDEBUG an invalid subscript reads val[i] outside
\* the vector: the call returns the handle or the process dies
operator_bracket(h, i) ==
    IF vec_index_is_valid(h, i)
    THEN {[outcome |-> "ok", recorded |-> FALSE, at |-> Element(h, i)]}
    ELSE IF ~ndebug
    THEN {[outcome |-> "abort", recorded |-> FALSE]}
    ELSE {[outcome |-> "ok", recorded |-> FALSE, at |-> Element(h, i)],
          [outcome |-> "abort", recorded |-> FALSE]}

\* Tensor::vec_index(i, j)
vec_index(h, i, j) == i + j * h.dim[1]

\* shadow_spy_subset_i(spy, i) of the R binding, i counted from 1: only the
\* upper end is tested before spy[i - 1]
shadow_spy_subset_i(h, i) ==
    IF i - 1 >= size(h.dim)
    THEN {[outcome |-> "out_of_range", recorded |-> FALSE]}
    ELSE operator_bracket(h, i - 1)

\* shadow_spy_subset_i_j(spy, i, j) of the R binding, i and j counted from 1
shadow_spy_subset_i_j(h, i, j) ==
    IF Len(h.dim) # 2
    THEN {[outcome |-> "logic_error", recorded |-> FALSE]}
    ELSE IF i - 1 >= h.dim[1] \/ j - 1 >= h.dim[2]
    THEN {[outcome |-> "out_of_range", recorded |-> FALSE]}
    ELSE operator_bracket(h, vec_index(h, i - 1, j - 1))

\* subscripts tried by the host, counted from 0
Subscripts == -1 .. 2

\* a[i] in a C++ host
SpySubscript ==
    \E h \in WholeHandles : \E i \in Subscripts : \E d \in operator_bracket(h, i) :
        Overload([call |-> "subset", via |-> "operator[]", a |-> h, sub |-> <<i>>], d)

\* a[i] in an R host
SpySubsetI ==
    \E h \in WholeHandles : \E i \in Subscripts : \E d \in shadow_spy_subset_i(h, i + 1) :
        Overload([call |-> "subset", via |-> "shadow_spy_subset_i", a |-> h, sub |-> <<i>>], d)

\* a[i, j] in an R host
SpySubsetIJ ==
    \E h \in WholeHandles : \E i \in Subscripts : \E j \in Subscripts :
    \E d \in shadow_spy_subset_i_j(h, i + 1, j + 1) :
        Overload([call |-> "subset", via |-> "shadow_spy_subset_i_j", a |-> h, sub |-> <<i, j>>], d)

\* tensors declared before the overloads are used, one per shape
SpyTensors ==
    {[dim |-> <<1>>, val |-> <<2>>], [dim |-> <<1, 1>>, val |-> <<2>>],
     [dim |-> <<2>>, val |-> <<2, -1>>], [dim |-> <<1, 2>>, val |-> <<2, -1>>],
     [dim |-> <<2, 1>>, val |-> <<2, -1>>]}

SpyNext ==
    \/ \E t \in SpyTensors : operations = <<>> /\ Len(spies) < MaxSpies /\ DeclareInput(t)
    \/ SpyBinary
    \/ SpyPowLiteral
    \/ SpyDot
    \/ SpyMatmult

\* a host that declares tensors, multiplies two matrices and reads elements
SubsetNext ==
    \/ \E t \in SpyTensors : operations = <<>> /\ Len(spies) < MaxSpies /\ DeclareInput(t)
    \/ SpyMatmult
    \/ SpySubscript
    \/ SpySubsetI
    \/ SpySubsetIJ

\* Tensor * Spy with a scalar literal a (spy_multiply.cpp): multiplying by the
\* literal 0 or 1 collapses to trivial-0 or identity, any other literal records
\* the multiply-by-constant operator on the slots of b
TensorTimesSpy(a, b) ==
    LET sb == is_scalar(b.dim)
        in == IF sb THEN <<b.tape_begin>> ELSE tape_range(b)
        kind == CASE a = 0 -> IF sb THEN "TrivialScalar<0>" ELSE "TrivialVector<0>"
                  [] a = 1 -> IF sb THEN "IdentityScalar" ELSE "IdentityVector"
                  [] OTHER -> IF sb THEN "MultiplyScalarScalar<true,false>"
                              ELSE "MultiplyVectorScalar<true,false>"
    IN  [outcome |-> "ok", recorded |-> TRUE, dim |-> TensorBinaryDim(<<1>>, b.dim),
         op |-> Op(kind, in, Len(in), IF a \in {0, 1} THEN <<>> ELSE <<a>>)]

\* values of the input x of the host program below
PeepholeVals == -2 .. 3

\* the scalar handle on the output of the k-th recorded operator
ResultOf(k) == Handle(operations[k].out[1], <<1>>)

\* the kinds recorded so far
RecordedKinds == {operations[k].kind : k \in 1 .. Len(operations)}

\* The host program  x = Spy(value, tape);  y = x - x + 3 * x - x - x;
\* one step is one overload call.  C++ leaves the order of the two operands of
\* the first sum open, so x - x and 3 * x are recorded in either order.
PeepholeProgram ==
    LET x == Handle(0, <<1>>)
    IN  \/ \E v \in PeepholeVals :
               n_input_size = 0 /\ DeclareInput([dim |-> <<1>>, val |-> <<v>>])
        \/ /\ n_input_size = 1 /\ Len(operations) <= 1
           /\ "TrivialScalar<0>" \notin RecordedKinds
           /\ Overload([call |-> "binary", f |-> "-", a |-> x, b |-> x], SpySpy("-", x, x))
        \/ /\ n_input_size = 1 /\ Len(operations) <= 1
           /\ "MultiplyScalarScalar<true,false>" \notin RecordedKinds
           /\ Overload([call |-> "times", a |-> 3, b |-> x], TensorTimesSpy(3, x))
        \/ /\ Len(operations) = 2
           /\ LET k == CHOOSE i \in 1 .. 2 : operations[i].kind = "TrivialScalar<0>"
              IN  Overload([call |-> "binary", f |-> "+", a |-> ResultOf(k), b |-> ResultOf(3 - k)],
                           SpySpy("+", ResultOf(k), ResultOf(3 - k)))
        \/ /\ Len(operations) \in {3, 4}
           /\ Overload([call |-> "binary", f |-> "-", a |-> ResultOf(Len(operations)), b |-> x],
                       SpySpy("-", ResultOf(Len(operations)), x))

PeepholeNext ==
    \/ PeepholeProgram
    \/ TraceConstruct
    \/ PlayStart
    \/ ReverseStep

(***************************************************************************)
(* SOLVER  (solver.h, solver_newton.cpp)                                   *)
(* The objective is seen through its values: finite objectives are the     *)
(* integers 0 .. MaxObj, the special doubles are NegInf, PosInf and NaN.   *)
(* Bracket ends are held as multiples of 1 / Scale, so that the repeated   *)
(* multiplication by brent_feasible_search_restriction_factor = 3/4 is     *)
(* exact.                                                                  *)
(***************************************************************************)
NegInf == -1000
PosInf == 1000
NaN == 2000
FiniteObj == 0 .. MaxObj
isfinite(x) == x \in FiniteObj

Scale == 4 ^ MaxShrink
brent_boundary_left == -1
brent_boundary_right == 2

\* SolverConfig: the fields the iteration reads
SolverConfigs ==
    [max_iterations : 0 .. MaxIter,
     objective_tolerance : {1, 2},
     max_regularization_attempts : 0 .. MaxRegul,
     brent_tolerance_factor : {1, 2}]

\* objective_new - objective_old > config.objective_tolerance in IEEE arithmetic
ImprovesBy(new, old, tol) ==
    IF new = NaN \/ old = NaN THEN FALSE
    ELSE IF new = NegInf THEN FALSE                  \* -inf - x is -inf or NaN
    ELSE IF new = PosInf THEN old # PosInf           \* inf - inf is NaN
    ELSE IF old = NegInf THEN TRUE                   \* x - (-inf) is +inf
    ELSE IF old = PosInf THEN FALSE
    ELSE new - old > tol

\* one step of the feasible-bracket loops: bound *= 3/4
Restrict(bound) == (bound * 3) \div 4

\* brent_out.objective < objective_new - brent_tol, with
\* brent_tol = fmin(objective_tolerance * brent_tolerance_factor, brent_width^2);
\* out is finite or -inf, new is finite or +inf
BacktrackingFailure(out, new, cfg, left, right) ==
    LET brent_width == right - left
        tol_scaled == cfg.objective_tolerance * cfg.brent_tolerance_factor * Scale * Scale
        brent_tol_scaled == IF tol_scaled < brent_width * brent_width
                            THEN tol_scaled ELSE brent_width * brent_width
    IN  IF new = PosInf \/ out = NegInf THEN TRUE
        ELSE (new - out) * Scale * Scale > brent_tol_scaled

\* values play_forward().result() can take
Objectives == FiniteObj \cup {NegInf, PosInf, NaN}

\* an evaluation that hands every objective back as it is
brent_functor_Plain(objective) == [raised |-> FALSE, ret |-> objective]

\* BrentOptimizeObjectiveFunctor::operator() after play_forward(): a finite
\* objective is returned, objective > max() (false for NaN) throws the logic
\* error, anything else is returned as -inf
brent_functor(objective) ==
    IF isfinite(objective) THEN [raised |-> FALSE, ret |-> objective]
    ELSE IF objective = PosInf THEN [raised |-> TRUE, ret |-> objective]
    ELSE [raised |-> FALSE, ret |-> NegInf]

\* the last evaluation of the functor: the objective it saw, what it
\* returned, whether it threw
Evaluation(objective) ==
    [done |-> TRUE, raw |-> objective, ret |-> brent_functor(objective).ret,
     raised |-> brent_functor(objective).raised]

NoEval == [done |-> FALSE, raw |-> NegInf, ret |-> NegInf, raised |-> FALSE]

\* Solver::maximize up to the loop: objective_old = -inf, objective_new = play().result()
MaximizeCall ==
    /\ sv.pc = "idle"
    /\ \E cfg \in SolverConfigs : \E obj \in FiniteObj \cup {NegInf, PosInf, NaN} :
           sv' = [pc |-> "loop_test", config |-> cfg,
                  objective_old |-> NegInf, objective_new |-> obj,
                  newton_step_index |-> 0, n_regul |-> 0, reg_ok |-> FALSE,
                  brent_left |-> 0, brent_right |-> 0, iterations |-> 0,
                  eval |-> NoEval]
    /\ UNCHANGED <<tapeVars, traceVars, matVars, lm>>

\* the condition of the outer while: the second operand, with its post-increment,
\* is evaluated only when the first holds
LoopTest ==
    /\ sv.pc = "loop_test"
    /\ IF ImprovesBy(sv.objective_new, sv.objective_old, sv.config.objective_tolerance)
       THEN sv' = [sv EXCEPT !.newton_step_index = @ + 1,
                             !.pc = IF sv.newton_step_index <= sv.config.max_iterations
                                    THEN "newton_direction" ELSE "returned"]
       ELSE sv' = [sv EXCEPT !.pc = "returned"]
    /\ UNCHANGED <<tapeVars, traceVars, matVars, lm>>

\* the unregularized attempt: factorize and solve, either may fail
NewtonDirection ==
    /\ sv.pc = "newton_direction"
    /\ \E success \in BOOLEAN :
           sv' = [sv EXCEPT !.n_regul = IF success THEN 0 ELSE 1,
                            !.reg_ok = FALSE,
                            !.pc = IF success THEN "restrict_left" ELSE "regul_test"]
    /\ UNCHANGED <<tapeVars, traceVars, matVars, lm>>

\* while (n_regul <= config.max_regularization_attempts)
RegulTest ==
    /\ sv.pc = "regul_test"
    /\ sv' = [sv EXCEPT !.pc = IF sv.n_regul <= sv.config.max_regularization_attempts
                               THEN "regul_attempt" ELSE "restrict_left"]
    /\ UNCHANGED <<tapeVars, traceVars, matVars, lm>>

\* body of the regularization loop: reweight, factorize, solve; n_regul++ on a
\* failure, nothing else changes.  The matrix is a function of n_regul, so an
\* attempt that succeeded succeeds again (reg_ok).
RegulAttempt ==
    /\ sv.pc = "regul_attempt"
    /\ \E success \in BOOLEAN :
           /\ sv.reg_ok => success
           /\ sv' = [sv EXCEPT !.n_regul = IF success THEN @ ELSE @ + 1,
                               !.reg_ok = success,
                               !.pc = "regul_test"]
    /\ UNCHANGED <<tapeVars, traceVars, matVars, lm>>

\* objectives brent_functor can see at a bracket end.  After MaxShrink
\* restrictions the end is the current point, whose objective is objective_new.
FunctorAtBound(shrinks) ==
    IF shrinks >= MaxShrink THEN {sv.objective_new} ELSE Objectives

\* how many times a bracket end has been restricted: bound = start * (3/4)^n
Shrinks(bound, start) ==
    CHOOSE n \in 0 .. MaxShrink : bound * (4 ^ n) = start * Scale * (3 ^ n)

\* while (!isfinite(brent_functor(brent_left))) brent_left *= factor: one evaluation
RestrictLeft ==
    /\ sv.pc \in {"restrict_left", "restrict_left_loop"}
    /\ LET left == IF sv.pc = "restrict_left" THEN brent_boundary_left * Scale
                   ELSE sv.brent_left
       IN  \E objective \in FunctorAtBound(Shrinks(left, brent_boundary_left)) :
               LET e == Evaluation(objective)
               IN  sv' = [sv EXCEPT
                         !.eval = e,
                         !.brent_left = IF ~e.raised /\ ~isfinite(e.ret)
                                        THEN Restrict(left) ELSE left,
                         !.brent_right = brent_boundary_right * Scale,
                         !.pc = IF e.raised THEN "logic_error"
                                ELSE IF isfinite(e.ret) THEN "restrict_right"
                                ELSE "restrict_left_loop"]
    /\ UNCHANGED <<tapeVars, traceVars, matVars, lm>>

\* while (!isfinite(brent_functor(brent_right))) brent_right *= factor: one evaluation
RestrictRight ==
    /\ sv.pc = "restrict_right"
    /\ \E objective \in FunctorAtBound(Shrinks(sv.brent_right, brent_boundary_right)) :
           LET e == Evaluation(objective)
           IN  sv' = [sv EXCEPT
                     !.eval = e,
                     !.brent_right = IF ~e.raised /\ ~isfinite(e.ret) THEN Restrict(@) ELSE @,
                     !.pc = IF e.raised THEN "logic_error"
                            ELSE IF isfinite(e.ret) THEN "line_search"
                            ELSE "restrict_right"]
    /\ UNCHANGED <<tapeVars, traceVars, matVars, lm>>

\* brent_optimize, the backtracking guard and the commit of the iteration.
\* The evaluation kept is the one that ends brent_optimize: the first that
\* throws, or else the last one, functor(x), whose value is brent_out.objective
LineSearch ==
    /\ sv.pc = "line_search"
    /\ \E objective \in Objectives :
           LET e == Evaluation(objective)
               out == e.ret
           IN  IF e.raised
               THEN sv' = [sv EXCEPT !.eval = e, !.pc = "logic_error"]
               ELSE IF BacktrackingFailure(out, sv.objective_new, sv.config,
                                           sv.brent_left, sv.brent_right)
               THEN sv' = [sv EXCEPT !.eval = e, !.pc = "logic_error"]
               ELSE sv' = [sv EXCEPT !.eval = e,
                                     !.objective_old = sv.objective_new,
                                     !.objective_new = out,
                                     !.iterations = @ + 1,
                                     !.pc = "loop_test"]
    /\ UNCHANGED <<tapeVars, traceVars, matVars, lm>>

SolverNext ==
    \/ MaximizeCall
    \/ LoopTest
    \/ NewtonDirection
    \/ RegulTest
    \/ RegulAttempt
    \/ RestrictLeft
    \/ RestrictRight
    \/ LineSearch

(***************************************************************************)
(* PROFILE LIKELIHOOD  (likelihood_methods.cpp)                            *)
(* confidence_intervals_profile on a trace that was played at the optimum. *)
(* A call of loglik(x) is seen through what it leaves behind: the input of *)
(* interest at x, the other inputs wherever maximize() moved them, and the *)
(* trace played there, or an error raised by maximize().                   *)
(***************************************************************************)
\* the whole reverse loop of play_reverse, from operator pos down to the first
RECURSIVE play_reverse(_, _, _, _)
play_reverse(ops, v, pos, st) ==
    IF pos = 0 \/ ~st.ok THEN st
    ELSE play_reverse(ops, v, pos - 1, OpVariantReverse(ops[pos], v, 0, st))

\* Trace::play on the values v: play_forward, then play_reverse from cleared
\* adjoints, the seed on the last slot and a cleared Hessian
play(ops, v) ==
    LET v1 == play_forward(ops, v)
        st == play_reverse(ops, v1, Len(ops),
                           [adj |-> [s \in DOMAIN v |-> IF s = n_trace_size - 1 THEN 1 ELSE 0],
                            hes |-> hessian_clear(hessian), ok |-> TRUE])
    IN  [values |-> v1, adjoints |-> st.adj, hessian |-> st.hes, ok |-> st.ok]

\* the trace after a play that gave p, when the play ran to its end
TraceAfter(p) ==
    /\ p.ok
    /\ values' = p.values
    /\ adjoints' = p.adjoints
    /\ hessian' = p.hessian

\* Solver::set_fixed_parameter_indices: fixing every input is an assert failure
set_fixed_parameter_indices(indices) ==
    IF ~ndebug /\ ~(Cardinality(indices) < n_input_size) THEN "abort" ELSE "ok"

\* a restore that leaves the inputs where the last loglik() put them
RestoreInputs_Skipped(v, optimal_inputs) == v

\* for (i < input_size) solver.trace[i] = optimal_inputs[i]
RestoreInputs(v, optimal_inputs) ==
    [s \in DOMAIN v |-> IF s < n_input_size THEN optimal_inputs[s] ELSE v[s]]

\* entry of confidence_intervals_profile: optimal_inputs and maximum_likelihood
\* are read from the trace; confidence_intervals_asymptotic may throw "Bad Hessian"
ProfileEnter ==
    /\ Alive /\ tstate = "played" /\ lm.pc = "idle" /\ n_input_size >= 1
    /\ \E bad_hessian \in BOOLEAN :
           lm' = [pc |-> IF bad_hessian THEN "raised" ELSE "loop",
                  optimal_inputs |-> [s \in 0 .. (n_input_size - 1) |-> values[s]],
                  input_index |-> 0,
                  fixed_parameter_indices |-> {},
                  evaluated |-> FALSE,
                  moved |-> FALSE,
                  at_entry |-> [values |-> values, adjoints |-> adjoints, hessian |-> hessian]]
    /\ UNCHANGED <<tapeVars, traceVars, matVars, sv>>

\* head of one iteration of the loop over the inputs:
\* solver.set_fixed_parameter_indices({ input_index })
ProfileFix ==
    /\ lm.pc = "loop" /\ lm.input_index < n_input_size
    /\ IF set_fixed_parameter_indices({lm.input_index}) = "abort"
       THEN lm' = [lm EXCEPT !.pc = "aborted"]
       ELSE lm' = [lm EXCEPT !.fixed_parameter_indices = {lm.input_index},
                             !.evaluated = FALSE,
                             !.pc = "profiling"]
    /\ UNCHANGED <<tapeVars, traceVars, matVars, sv>>

\* functor.loglik(x) inside confidence_interval_profile_likelihood:
\* value_of_interest = x; solver.maximize()
ProfileLoglik ==
    /\ lm.pc = "profiling"
    /\ \E x \in InputVals : \E raised \in BOOLEAN :
       \E inputs \in [0 .. (n_input_size - 1) -> InputVals] :
           LET v == [s \in DOMAIN values |-> IF s < n_input_size THEN inputs[s] ELSE values[s]]
           IN  /\ inputs[lm.input_index] = x
               /\ ValuesFit(operations, v)
               /\ IF raised
                  THEN /\ values' = v
                       /\ UNCHANGED <<adjoints, hessian>>
                       /\ lm' = [lm EXCEPT !.pc = "raised"]
                  ELSE /\ TraceAfter(play(operations, v))
                       /\ lm' = [lm EXCEPT !.evaluated = TRUE,
                                           !.moved = @ \/ values' # lm.at_entry.values]
    /\ UNCHANGED <<tapeVars, tstate, hwidth, rpos, plays, prev_play, matVars, sv>>

\* end of one iteration: both brackets were evaluated, results[input_index] is stored
ProfileNextInput ==
    /\ lm.pc = "profiling" /\ lm.evaluated
    /\ lm' = [lm EXCEPT !.input_index = @ + 1, !.pc = "loop"]
    /\ UNCHANGED <<tapeVars, traceVars, matVars, sv>>

\* after the loop: restore the inputs, set_fixed_parameter_indices({}), trace.play()
ProfileRestore ==
    /\ lm.pc = "loop" /\ lm.input_index >= n_input_size
    /\ LET restored == RestoreInputs(values, lm.optimal_inputs)
       IN  IF set_fixed_parameter_indices({}) = "abort"
           THEN /\ values' = restored
                /\ UNCHANGED <<adjoints, hessian>>
                /\ lm' = [lm EXCEPT !.pc = "aborted"]
           ELSE /\ TraceAfter(play(operations, restored))
                /\ lm' = [lm EXCEPT !.fixed_parameter_indices = {}, !.pc = "returned"]
    /\ UNCHANGED <<tapeVars, tstate, hwidth, rpos, plays, prev_play, matVars, sv>>

\* largest number of input slots and of operators of the profiled tapes
MaxProfileInputs == 2
MaxProfileOps == 1

\* a host that records a tape, plays it and asks for the profile intervals
ProfileNext ==
    \/ \E t \in ADTensors :
           /\ operations = <<>> /\ n_input_size + Len(t.val) <= MaxProfileInputs
           /\ DeclareInput(t)
    \/ Len(operations) < MaxProfileOps /\ RecScalarScalar(ScalarScalarKinds)
    \/ Len(operations) < MaxProfileOps /\ RecUnary(UnaryKinds)
    \/ TraceConstruct /\ ValuesFit(operations, values')
    \/ lm.pc = "idle" /\ plays = 0 /\ PlayStart
    \/ ReverseStep
    \/ ProfileEnter
    \/ ProfileFix
    \/ ProfileLoglik
    \/ ProfileNextInput
    \/ ProfileRestore

(***************************************************************************)
(* NEWTON DIRECTION  (solver_newton.cpp, eigen_sparse_matrix.cpp)          *)
(* maximize() on a recorded tape, with the working matrix, the             *)
(* regularization attempts, the direction and the line search computed     *)
(* from the trace.  The matrix (1 - lambda) H + lambda I, with             *)
(* lambda = (n_regul / max_regularization_attempts)^2, is held as its      *)
(* entries times scale = max_regularization_attempts^2; a direction is     *)
(* held as one numerator per input over a common denominator.              *)
(***************************************************************************)
\* EigenSparseMat(hessian_map, fixed_indices): the loop runs over the stored
\* rows; a stored row named in fixed_indices gives the single triplet
\* (row, row, -1), any other stored row gives all its stored entries
EigenSparseMat(m, fixed) ==
    [r \in DOMAIN m |-> IF r \in fixed THEN [c \in {r} |-> -1] ELSE m[r]]

\* the N x N coefficients of a sparse matrix, 0 where nothing is stored
Dense(E, N) == [i \in 0 .. (N - 1) |-> [j \in 0 .. (N - 1) |-> read(E, i, j)]]

\* a sequence without its k-th element
RemoveAt(sq, k) == [x \in 1 .. (Len(sq) - 1) |-> IF x < k THEN sq[x] ELSE sq[x + 1]]

\* determinant of the rows and columns named, by expansion along the first row
RECURSIVE Det(_, _, _, _)
Det(A, rows, cols, k) ==
    IF rows = <<>> THEN 1
    ELSE IF k > Len(cols) THEN 0
    ELSE (IF k % 2 = 1 THEN 1 ELSE -1) * A[rows[1]][cols[k]]
             * Det(A, Tail(rows), RemoveAt(cols, k), 1)
         + Det(A, rows, cols, k + 1)

\* A with column c replaced by the vector b
ReplaceCol(A, c, b) ==
    [i \in DOMAIN A |-> [j \in DOMAIN A[i] |-> IF j = c THEN b[i] ELSE A[i][j]]]

\* LU_solver.factorize(A) followed by LU_solver.solve(b): a singular matrix is
\* refused (info() != Success); otherwise the solution of A x = b, given by
\* Cramer's rule as numerators over the determinant
LU_solve(A, b, N) ==
    LET idx == [k \in 1 .. N |-> k - 1]
        d == Det(A, idx, idx, 1)
    IN  [ok |-> d # 0,
         num |-> [i \in 0 .. (N - 1) |-> Det(ReplaceCol(A, i, b), idx, idx, 1)],
         den |-> d]

\* the weighted combination written over the stored entries of the working
\* matrix: hessian_buffer * (1 - lambda), plus lambda where row == col; times
\* scale = max * max, with lambda = (n / max)^2
Reweighted(hessian_buffer, n, max) ==
    [r \in DOMAIN hessian_buffer |->
        [c \in DOMAIN hessian_buffer[r] |->
            hessian_buffer[r][c] * (max * max - n * n) + IF r = c THEN n * n ELSE 0]]

\* Eigen_newton_direction = -LU_solver.solve(Eigen_gradient)
Negated(x) == [num |-> [i \in DOMAIN x.num |-> -x.num[i]], den |-> x.den]

\* the configuration of the calls: one Newton iteration per call
NewtonConfig ==
    [max_iterations |-> 0, objective_tolerance |-> 1, brent_tolerance_factor |-> 1]

\* calls of maximize() on one Solver
MaxCalls == 2

\* largest number of inputs and of operators of the maximized tapes
MaxNewtonInputs == 2
MaxNewtonOps == 2

\* steps the line search may end on, inside [brent_boundary_left, brent_boundary_right]
Steps == brent_boundary_left .. brent_boundary_right

\* Solver::Solver(trace): param_buffer and direction_buffer are value-initialized
SolverConstruct ==
    /\ Alive /\ tstate = "ready" /\ sv.pc = "idle" /\ operations # <<>>
    /\ sv' = [pc |-> "constructed", calls |-> 0,
              direction_buffer |-> [num |-> [i \in 0 .. (n_input_size - 1) |-> 0], den |-> 1]]
    /\ UNCHANGED <<tapeVars, traceVars, matVars, lm>>

\* set_fixed_parameter_indices(F); maximize() up to its loop:
\* objective_new = trace.play().result() and the first working matrix
NewtonMaximize ==
    /\ sv.pc \in {"constructed", "nm_returned"} /\ sv.calls < MaxCalls
    /\ \E F \in SUBSET (0 .. (n_input_size - 1)) : \E max \in 1 .. MaxRegul :
           /\ set_fixed_parameter_indices(F) = "ok" /\ Cardinality(F) < n_input_size
           /\ TraceAfter(play(operations, values))
           /\ sv' = [pc |-> "nm_loop_test", calls |-> sv.calls + 1,
                     direction_buffer |-> sv.direction_buffer,
                     fixed_parameter_indices |-> F,
                     max_regularization_attempts |-> max,
                     objective_old |-> NegInf,
                     objective_new |-> values'[n_trace_size - 1],
                     newton_step_index |-> 0, n_regul |-> 0,
                     Eigen_hessian |-> EigenSparseMat(hessian', F),
                     hessian_buffer |-> EmptyMatrix,
                     scale |-> 1, attempt |-> 0, solved |-> FALSE,
                     param_buffer |-> [i \in 0 .. (n_input_size - 1) |-> values[i]],
                     at_entry |-> [i \in 0 .. (n_input_size - 1) |-> values[i]]]
    /\ tstate' = "played"
    /\ UNCHANGED <<tapeVars, hwidth, rpos, plays, prev_play, matVars, lm>>

\* the condition of the outer while of maximize()
NewtonLoopTest ==
    /\ sv.pc = "nm_loop_test"
    /\ IF ImprovesBy(sv.objective_new, sv.objective_old, NewtonConfig.objective_tolerance)
       THEN sv' = [sv EXCEPT !.newton_step_index = @ + 1,
                             !.pc = IF sv.newton_step_index <= NewtonConfig.max_iterations
                                    THEN "nm_direction" ELSE "nm_returned"]
       ELSE sv' = [sv EXCEPT !.pc = "nm_returned"]
    /\ UNCHANGED <<tapeVars, traceVars, matVars, lm>>

\* the gradient handed to the solver: the adjoints of the inputs, times k
Gradient(adj, k) == [i \in 0 .. (n_input_size - 1) |-> k * adj[i]]

\* head of the iteration: the parameters are saved, the adjoints of the fixed
\* indices are set to zero, the working matrix is rebuilt and the
\* unregularized solution is attempted
NewtonIteration ==
    /\ sv.pc = "nm_direction"
    /\ adjoints' = [s \in DOMAIN adjoints |->
                       IF s \in sv.fixed_parameter_indices THEN 0 ELSE adjoints[s]]
    /\ LET E == EigenSparseMat(hessian, sv.fixed_parameter_indices)
           x == LU_solve(Dense(E, n_input_size), Gradient(adjoints', 1), n_input_size)
       IN  sv' = [sv EXCEPT
                     !.param_buffer = [i \in 0 .. (n_input_size - 1) |-> values[i]],
                     !.Eigen_hessian = E,
                     !.hessian_buffer = IF x.ok THEN @ ELSE E,
                     !.scale = 1, !.attempt = 0,
                     !.n_regul = IF x.ok THEN 0 ELSE 1,
                     !.solved = x.ok,
                     !.direction_buffer = IF x.ok THEN Negated(x) ELSE @,
                     !.pc = IF x.ok THEN "nm_line_search" ELSE "nm_regul"]
    /\ UNCHANGED <<tapeVars, tstate, values, hessian, hwidth, rpos, plays, prev_play,
                   matVars, lm>>

\* the regularization loop: its condition and one pass of its body.  A pass
\* that succeeds leaves n_regul as it is
NewtonRegularize ==
    /\ sv.pc = "nm_regul"
    /\ IF sv.n_regul <= sv.max_regularization_attempts
       THEN LET max == sv.max_regularization_attempts
                E == Reweighted(sv.hessian_buffer, sv.n_regul, max)
                x == LU_solve(Dense(E, n_input_size), Gradient(adjoints, max * max),
                              n_input_size)
            IN  sv' = [sv EXCEPT
                          !.Eigen_hessian = E,
                          !.scale = max * max, !.attempt = sv.n_regul,
                          !.n_regul = IF x.ok THEN @ ELSE @ + 1,
                          !.solved = x.ok,
                          !.direction_buffer = IF x.ok THEN Negated(x) ELSE @]
       ELSE sv' = [sv EXCEPT !.pc = "nm_line_search"]
    /\ UNCHANGED <<tapeVars, traceVars, matVars, lm>>

\* step * direction_buffer[i] as a quotient and its remainder
StepNum(step, i) ==
    IF sv.direction_buffer.den < 0 THEN -(step * sv.direction_buffer.num[i])
    ELSE step * sv.direction_buffer.num[i]
StepDen == IF sv.direction_buffer.den < 0 THEN -sv.direction_buffer.den
           ELSE sv.direction_buffer.den

\* the inputs written by brent_functor(step):
\* values[i] = param_buffer[i] + step * direction_buffer[i]
StepTo(step) ==
    [s \in DOMAIN values |->
        IF s < n_input_size
        THEN sv.param_buffer[s] + StepNum(step, s) \div StepDen
        ELSE values[s]]

\* the step gives inputs the model can hold
StepFits(step) ==
    /\ \A i \in 0 .. (n_input_size - 1) :
           StepNum(step, i) % StepDen = 0
    /\ ValuesFit(operations, StepTo(step))

\* the end of the iteration once brent_optimize(...) has ended on functor(x)
\* with the trace at p: the backtracking guard, then the commit and play_reverse
NewtonCommit(p) ==
    LET out == p.values[n_trace_size - 1]
    IN  IF BacktrackingFailure(out, sv.objective_new, NewtonConfig,
                               brent_boundary_left * Scale, brent_boundary_right * Scale)
        THEN /\ values' = p.values
             /\ UNCHANGED <<adjoints, hessian>>
             /\ sv' = [sv EXCEPT !.pc = "nm_logic_error"]
        ELSE /\ TraceAfter(p)
             /\ sv' = [sv EXCEPT !.objective_old = sv.objective_new,
                                 !.objective_new = out,
                                 !.pc = "nm_loop_test"]

\* the line search along direction_buffer and the end of the iteration
NewtonLineSearch ==
    /\ sv.pc = "nm_line_search"
    /\ \E step \in Steps :
           /\ StepFits(step)
           /\ NewtonCommit(play(operations, StepTo(step)))
    /\ UNCHANGED <<tapeVars, tstate, hwidth, rpos, plays, prev_play, matVars, lm>>

\* a host that records a tape and maximizes it, several times over
NewtonNext ==
    \/ \E t \in ADTensors :
           /\ operations = <<>> /\ n_input_size + Len(t.val) <= MaxNewtonInputs
           /\ DeclareInput(t)
    \/ Len(operations) < MaxNewtonOps /\ RecScalarScalar(ScalarScalarKinds)
    \/ Len(operations) < MaxNewtonOps /\ RecUnary(UnaryKinds)
    \/ TraceConstruct /\ ValuesFit(operations, values')
    \/ SolverConstruct
    \/ NewtonMaximize
    \/ NewtonLoopTest
    \/ NewtonIteration
    \/ NewtonRegularize
    \/ NewtonLineSearch

(***************************************************************************)
(* Stand-alone use of the sparse matrix: element references obtained with  *)
(* get(i, j), written through with += and =, and erase(i).                 *)
(***************************************************************************)
MatIdx == 0 .. (MatWidth - 1)

\* SparseSymMat::get: a fresh reference, is_valid_ij = false
MatGet(i, j) ==
    /\ mat_ops < MaxMatOps
    /\ ref' = [i |-> i, j |-> j, valid |-> FALSE, zeroed |-> FALSE]
    /\ mat_ops' = mat_ops + 1
    /\ UNCHANGED <<tapeVars, tstate, values, adjoints, hessian, hwidth, rpos, plays, prev_play, sv, lm>>

\* elem_ref_t::operator+=
RefPlusEq(x) ==
    /\ mat_ops < MaxMatOps
    /\ ref # NoRef
    /\ mat_ops' = mat_ops + 1
    /\ IF x = 0 THEN UNCHANGED <<hessian, ref>>
       ELSE /\ hessian' = PlusEqWrite(IF ref.valid THEN hessian
                                      ELSE prepare_write(hessian, ref.i, ref.j),
                                      ref.i, ref.j, x)
            /\ ref' = [ref EXCEPT !.valid = TRUE, !.zeroed = FALSE]
    /\ UNCHANGED <<tapeVars, tstate, values, adjoints, hwidth, rpos, plays, prev_play, sv, lm>>

\* elem_ref_t::operator=
RefAssign(x) ==
    /\ mat_ops < MaxMatOps
    /\ ref # NoRef
    /\ mat_ops' = mat_ops + 1
    /\ IF x = 0
       THEN IF ref.valid
            THEN /\ hessian' = set_zero(hessian, ref.i, ref.j)
                 /\ ref' = [ref EXCEPT !.valid = FALSE, !.zeroed = TRUE]
            ELSE /\ ref' = [ref EXCEPT !.zeroed = TRUE]
                 /\ UNCHANGED hessian
       ELSE /\ hessian' = AssignWrite(IF ref.valid THEN hessian
                                      ELSE prepare_write(hessian, ref.i, ref.j),
                                      ref.i, ref.j, x)
            /\ ref' = [ref EXCEPT !.valid = TRUE, !.zeroed = FALSE]
    /\ UNCHANGED <<tapeVars, tstate, values, adjoints, hwidth, rpos, plays, prev_play, sv, lm>>

\* SparseSymMat::erase(i); the temporary reference of the previous statement is gone
MatErase(i) ==
    /\ mat_ops < MaxMatOps
    /\ mat_ops' = mat_ops + 1
    /\ hessian' = erase(hessian, i)
    /\ ref' = NoRef
    /\ UNCHANGED <<tapeVars, tstate, values, adjoints, hwidth, rpos, plays, prev_play, sv, lm>>

MatNext ==
    \/ \E i \in MatIdx, j \in MatIdx : MatGet(i, j)
    \/ \E x \in MatVals : RefPlusEq(x)
    \/ \E x \in MatVals : RefAssign(x)
    \/ \E i \in MatIdx : MatErase(i)

Init == TapeInit /\ TraceInit /\ MatInit /\ sv = IdleSolver /\ lm = IdleProfile

\* the release build (NDEBUG defined)
InitRelease == Init /\ ndebug

SpecMat == InitRelease /\ [][MatNext]_vars

SpecTape == Init /\ [][TapeNext]_vars

SpecAD == InitRelease /\ [][ADNext]_vars

SpecSolver == InitRelease /\ [][SolverNext]_vars

SpecSpy == Init /\ [][SpyNext]_vars

SpecPeephole == Init /\ [][PeepholeNext]_vars

SpecSubset == Init /\ [][SubsetNext]_vars

SpecProfile == Init /\ [][ProfileNext]_vars

SpecNewton == InitRelease /\ [][NewtonNext]_vars

\* maximize() runs on its caller's thread: a step that can be taken is taken
FairSolverSpec == InitRelease /\ [][SolverNext]_vars /\ WF_vars(SolverNext)

\* every stored off-diagonal entry has its mirror entry stored with the same value
Symmetric(m) ==
    \A i \in DOMAIN m : \A j \in DOMAIN m[i] :
        i # j => (HasElem(m, j, i) /\ m[j][i] = m[i][j])

\* C7: after any sequence of element writes (+=, =) and erase(i) calls, for every
\* stored off-diagonal entry (i, j) the entry (j, i) is stored with the same value.
C7_HessianSymmetric == Symmetric(hessian)

\* an erase has run (it drops the reference) and an off-diagonal pair written
\* through += and = is still stored with a nonzero value
C7_Witness ==
    /\ ref = NoRef /\ mat_ops >= 4
    /\ \E i \in DOMAIN hessian : \E j \in DOMAIN hessian[i] : i # j /\ hessian[i][j] = 2

(***************************************************************************)
(* Exact derivatives of the objective (the last trace slot), computed in   *)
(* forward mode: tangents for first order, second-order jets with respect  *)
(* to the input slots for second order.                                    *)
(***************************************************************************)
RECURSIVE SumTo(_, _)
SumTo(f, n) == IF n = 0 THEN 0 ELSE f[n] + SumTo(f, n - 1)

Slots == 0 .. (n_trace_size - 1)
InputSlots == 0 .. (n_input_size - 1)

\* tangent of every slot with respect to slot j, slot j taken as independent
RECURSIVE TangentOp(_, _, _, _, _)
TangentOp(op, v, j, t, il) ==
    IF il >= Len(op.out) THEN t
    ELSE LET o == op.out[il + 1]
             d == SumTo([jl \in 1 .. Len(op.in) |->
                            partial(op, v, il, jl - 1) * t[op.in[jl]]], Len(op.in))
         IN  TangentOp(op, v, j,
                 [s \in DOMAIN t |-> IF s = o /\ o # j THEN d ELSE t[s]], il + 1)

RECURSIVE Tangent(_, _, _, _)
Tangent(ops, v, j, t) ==
    IF ops = <<>> THEN t ELSE Tangent(Tail(ops), v, j, TangentOp(Head(ops), v, j, t, 0))

ExactAdjoint(j) ==
    Tangent(operations, values, j, [s \in Slots |-> IF s = j THEN 1 ELSE 0])[n_trace_size - 1]

\* second-order jet J = [g, h]: g[s][a] = d s / d a, h[s][a][b] = d2 s / d a d b
RECURSIVE JetOp(_, _, _, _)
JetOp(op, v, J, il) ==
    IF il >= Len(op.out) THEN J
    ELSE LET o == op.out[il + 1]
             n == Len(op.in)
             go == [a \in InputSlots |->
                       SumTo([jl \in 1 .. n |->
                                 partial(op, v, il, jl - 1) * J.g[op.in[jl]][a]], n)]
             ho == [a \in InputSlots |-> [b \in InputSlots |->
                       SumTo([jl \in 1 .. n |->
                                 partial(op, v, il, jl - 1) * J.h[op.in[jl]][a][b]
                                 + SumTo([kl \in 1 .. n |->
                                       partial2(op, v, il, jl - 1, kl - 1)
                                           * J.g[op.in[jl]][a] * J.g[op.in[kl]][b]], n)], n)]]
         IN  JetOp(op, v,
                 [g |-> [s \in Slots |-> IF s = o THEN go ELSE J.g[s]],
                  h |-> [s \in Slots |-> IF s = o THEN ho ELSE J.h[s]]], il + 1)

RECURSIVE Jet(_, _, _)
Jet(ops, v, J) == IF ops = <<>> THEN J ELSE Jet(Tail(ops), v, JetOp(Head(ops), v, J, 0))

ExactHessian ==
    Jet(operations, values,
        [g |-> [s \in Slots |-> [a \in InputSlots |-> IF s = a THEN 1 ELSE 0]],
         h |-> [s \in Slots |-> [a \in InputSlots |-> [b \in InputSlots |-> 0]]]]
       ).h[n_trace_size - 1]

(***************************************************************************)
(* Playback properties                                                     *)
(***************************************************************************)
\* C1: after play(), for every pair of input slots (j, k), hessian.read(j, k) is
\* the exact second partial derivative of the last trace slot.
C1_HessianExact ==
    tstate = "played" =>
        \A j \in InputSlots : \A k \in InputSlots : read(hessian, j, k) = ExactHessian[j][k]

\* C2: after play(), for every trace slot j, adjoints[j] is the exact first partial
\* derivative of the last trace slot with respect to slot j; the last slot holds 1.
C2_AdjointsExact ==
    tstate = "played" =>
        /\ adjoints[n_trace_size - 1] = 1
        /\ \A j \in Slots : adjoints[j] = ExactAdjoint(j)

\* a played tape on which one slot is an operand of two operators and carries a
\* nonzero adjoint
C2_Witness ==
    /\ tstate = "played"
    /\ \E j \in Slots : \E a \in 1 .. Len(operations) : \E b \in 1 .. Len(operations) :
           /\ a # b /\ j \in Range(operations[a].in) /\ j \in Range(operations[b].in)
           /\ adjoints[j] # 0 /\ adjoints[j] # 1

\* C10: a play() that follows a play() on unchanged inputs leaves the same values,
\* adjoints and stored Hessian entries as the first one.
C10_PlayIdempotent ==
    (tstate = "played" /\ prev_play.done) =>
        /\ values = prev_play.values
        /\ adjoints = prev_play.adjoints
        /\ hessian = prev_play.hessian

\* two plays in a row on a trace that was overwritten before the first of them,
\* on a tape of two operators with stored Hessian entries
C10_Witness ==
    /\ tstate = "played" /\ prev_play.done /\ prev_play.dirty
    /\ Len(operations) >= 2 /\ hessian # EmptyMatrix

(***************************************************************************)
(* Solver properties                                                       *)
(***************************************************************************)
Terminated == sv.pc \in {"returned", "logic_error"}

\* C3: every call to maximize() eventually returns or raises an error.
C3_MaximizeTerminates == (sv.pc # "idle") ~> Terminated

\* C4: a call to maximize() performs at most config.max_iterations outer Newton
\* iterations, for every value of max_iterations including 0.
C4_IterationCap ==
    sv.pc # "idle" => sv.iterations <= sv.config.max_iterations

\* C5: after every completed outer iteration the objective is at least the
\* objective before the iteration minus config.objective_tolerance.
C5_MonotoneAscent ==
    (sv.pc # "idle" /\ sv.iterations > 0) =>
        sv.objective_new >= sv.objective_old - sv.config.objective_tolerance

\* the line search of the current iteration has been entered
InLineSearch ==
    sv.pc \in {"restrict_left", "restrict_left_loop", "restrict_right", "line_search"}

\* the unregularized attempt and every regularized attempt of the current
\* iteration failed: n_regul counts the failures
AllAttemptsFailed ==
    sv.pc # "idle" /\ sv.n_regul > sv.config.max_regularization_attempts

\* C13: a factorization or solve failure is surfaced as an error exactly when
\* the unregularized attempt and all max_regularization_attempts regularized
\* attempts fail: maximize() then raises and runs no line search with an
\* unsolved direction.
C13_FailureSurfaced == AllAttemptsFailed => ~InLineSearch

\* C20: the regularized attempts stop at the first one whose factorization and
\* solve both succeed: no further attempt follows a success.
C20_StopAtFirstSuccess ==
    (sv.pc # "idle" /\ sv.reg_ok) => sv.pc # "regul_attempt"

\* C18: an objective evaluation of the line search (bracket ends included)
\* that yields +inf makes maximize() raise a logic error; one that yields NaN
\* or -inf raises nothing and is treated as -inf.
C18_InfiniteObjective ==
    (sv.pc # "idle" /\ sv.eval.done) =>
        /\ sv.eval.raw = PosInf => (sv.eval.raised /\ sv.pc = "logic_error")
        /\ sv.eval.raw \in {NaN, NegInf} => (~sv.eval.raised /\ sv.eval.ret = NegInf)

\* the right bracket end was restricted after an evaluation that yielded NaN
C18_Witness ==
    /\ sv.pc = "restrict_right" /\ sv.eval.done /\ sv.eval.raw = NaN
    /\ sv.brent_right < brent_boundary_right * Scale

(***************************************************************************)
(* Recording properties                                                    *)
(***************************************************************************)
IsDeclaration(c) == c.call \in {"spy", "spy_map"}

\* C6: declaring a new free input on a tape that already holds a recorded operator
\* fails, whichever input-declaring constructor is used; hence all input slots
\* precede all operator output slots.
C6_DeclarationAfterRecordingFails ==
    /\ (IsDeclaration(last_call) /\ last_call.had_ops /\ last_call.is_new)
           => last_call.outcome # "ok"
    /\ \A k \in 1 .. Len(spies) : \A o \in 1 .. Len(operations) :
           spies[k].tape_begin + Len(spies[k].val) <= operations[o].out[1]

RECURSIVE SumOut(_)
SumOut(ops) == IF ops = <<>> THEN 0 ELSE Len(Head(ops).out) + SumOut(Tail(ops))

\* C8: n_trace_size = n_input_size + the summed output sizes of the recorded
\* operators, and a trace constructed from the tape has values and adjoints of
\* length n_trace_size and a Hessian of width n_input_size.
C8_TraceShape ==
    /\ n_trace_size = n_input_size + SumOut(operations)
    /\ tstate # "none" =>
          /\ DOMAIN values = 0 .. (n_trace_size - 1)
          /\ DOMAIN adjoints = 0 .. (n_trace_size - 1)
          /\ hwidth = n_input_size

\* a trace built from a tape holding a two-slot input and a two-slot operator output
C8_Witness ==
    /\ tstate = "ready" /\ n_input_size = 2 /\ n_trace_size = 4
    /\ \E a \in 1 .. Len(operations) : Len(operations[a].out) = 2

\* C9: each spy(value, tape) on a tape without operators returns a handle with the
\* shape of value whose tape_begin is the previous n_input_size, grows n_input_size
\* by len(value) and appends value to initial_values; the declared inputs tile
\* [0, n_input_size) and initial_values[k] is the initial value of slot k.
C9_InputsTile ==
    /\ (last_call.call = "spy" /\ last_call.outcome = "ok") =>
          /\ last_call.handle.tape_begin = last_call.n_before
          /\ last_call.handle.dim = last_call.arg.dim
          /\ n_input_size = last_call.n_before + Len(last_call.arg.val)
          /\ Len(initial_values) = n_input_size
          /\ \A e \in 1 .. Len(last_call.arg.val) :
                 initial_values[last_call.n_before + e] = last_call.arg.val[e]
    /\ \A k \in 1 .. Len(spies) :
          /\ spies[k].tape_begin =
                 IF k = 1 THEN 0 ELSE spies[k - 1].tape_begin + Len(spies[k - 1].val)
          /\ \A e \in 1 .. Len(spies[k].val) :
                 initial_values[spies[k].tape_begin + e] = spies[k].val[e]
    /\ n_input_size =
          IF spies = <<>> THEN 0
          ELSE spies[Len(spies)].tape_begin + Len(spies[Len(spies)].val)

\* a vector declared by value after another input, no operator recorded yet
C9_Witness ==
    /\ operations = <<>> /\ Len(spies) >= 2
    /\ last_call.call = "spy" /\ last_call.outcome = "ok"
    /\ Len(last_call.arg.val) = 2 /\ last_call.n_before > 0

(***************************************************************************)
(* Reverse sweep properties                                                *)
(***************************************************************************)
\* the row and column indices stored in a matrix
StoredIndices(m) == DOMAIN m \cup UNION {DOMAIN m[r] : r \in DOMAIN m}

\* C26: when play_reverse completes, every row and column index stored in the
\* Hessian is a free-input slot (index < n_input_size); no entry involving an
\* operator-output slot remains.
C26_OnlyInputRows ==
    tstate = "played" => \A i \in StoredIndices(hessian) : i < n_input_size

\* a played tape of three operators in which an operator output was the
\* operand of a later operator with a second derivative, and entries remain
C26_Witness ==
    /\ tstate = "played" /\ Len(operations) = 3 /\ hessian # EmptyMatrix
    /\ operations[3].kind \in UnaryKinds /\ operations[3].in = operations[2].out
    /\ adjoints[operations[2].out[1]] # 0

\* the last output slot of the operator the reverse sweep visits next
NextLastOut == operations[rpos].out[Len(operations[rpos].out)]

\* C29: whenever play_reverse starts processing an operator, the Hessian
\* stores no row or column whose index is greater than that operator's last
\* output slot.
C29_RowsBelowCursor ==
    (tstate = "reverse" /\ rpos > 0) =>
        \A i \in StoredIndices(hessian) : i <= NextLastOut

\* the sweep is about to visit the first of three operators, the row of the
\* second operator's output having been filled by the third and erased since
C29_Witness ==
    /\ tstate = "reverse" /\ rpos = 1 /\ Len(operations) = 3
    /\ operations[3].kind \in UnaryKinds /\ operations[3].in = operations[2].out
    /\ operations[1].out[1] \in StoredIndices(hessian)

\* C30: no stored Hessian entry is exactly 0.0 and no stored row is empty at
\* any point of play_reverse and after play().
C30_NoStoredZero ==
    tstate \in {"reverse", "played"} =>
        \A r \in DOMAIN hessian :
            /\ DOMAIN hessian[r] # {}
            /\ \A c \in DOMAIN hessian[r] : hessian[r][c] # 0

(***************************************************************************)
(* Builder properties                                                      *)
(***************************************************************************)
\* the operator appended by the last overload call
LastOp == operations[Len(operations)]

\* the last overload call appended exactly one operator
AppendedOne == Len(operations) = Len(last_call.ops_before) + 1

\* C11: the peephole table of recording: with both operands the same spy, a + a
\* appends a single multiply-by-constant-2 operator, a - a a single trivial-0 and
\* a / a a single trivial-1; with a literal exponent, a^0 appends trivial-1, a^1
\* identity, a^2 square and a^3 cube.  Exactly one operator is appended, the
\* unary specialization on the slots of a, never a free-free binary operator.
C11_PeepholeTable ==
    /\ (last_call.call = "binary" /\ last_call.args.a = last_call.args.b
            /\ last_call.args.f \in {"+", "-", "/"}) =>
          /\ last_call.outcome = "ok" /\ AppendedOne
          /\ LastOp.in = tape_range(last_call.args.a)
          /\ LET s == is_scalar(last_call.args.a.dim)
                 f == last_call.args.f
             IN  /\ f = "+" => /\ LastOp.constant = <<2>>
                               /\ LastOp.kind = IF s THEN "MultiplyScalarScalar<true,false>"
                                                ELSE "MultiplyVectorScalar<true,false>"
                 /\ f = "-" => LastOp.kind = IF s THEN "TrivialScalar<0>" ELSE "TrivialVector<0>"
                 /\ f = "/" => LastOp.kind = IF s THEN "TrivialScalar<1>" ELSE "TrivialVector<1>"
    /\ (last_call.call = "pow" /\ last_call.args.b \in {0, 1, 2, 3}) =>
          /\ last_call.outcome = "ok" /\ AppendedOne
          /\ LastOp.in = tape_range(last_call.args.a)
          /\ LET s == is_scalar(last_call.args.a.dim)
                 b == last_call.args.b
             IN  /\ b = 0 => LastOp.kind = IF s THEN "TrivialScalar<1>" ELSE "TrivialVector<1>"
                 /\ b = 1 => LastOp.kind = IF s THEN "IdentityScalar" ELSE "IdentityVector"
                 /\ b = 2 => LastOp.kind = IF s THEN "SquareScalar" ELSE "SquareVector"
                 /\ b = 3 => LastOp.kind = IF s THEN "CubeScalar" ELSE "CubeVector"

\* a + a recorded on a declared two-slot vector
C11_Witness ==
    /\ last_call.call = "binary" /\ last_call.args.f = "+"
    /\ last_call.args.a = last_call.args.b /\ size(last_call.args.a.dim) = 2
    /\ last_call.outcome = "ok" /\ Len(operations) = 1

\* the tape holds the whole of y = x - x + 3 * x - x - x
PeepholeTape == n_input_size = 1 /\ Len(operations) = 5

\* the matrix stores no entry
NoEntry(m) == \A i \in DOMAIN m : DOMAIN m[i] = {}

\* C12: on the tape of y = x - x + 3 * x - x - x over one scalar input x, built
\* through the overloads, play() leaves the objective equal to the value of x,
\* adjoints[x] equal to 1 and a Hessian that stores no entry.
C12_PeepholePlay ==
    (PeepholeTape /\ tstate = "played") =>
        /\ values[n_trace_size - 1] = values[0]
        /\ adjoints[0] = 1
        /\ NoEntry(hessian)

\* the whole expression recorded and played at x = 3
C12_Witness ==
    /\ PeepholeTape /\ tstate = "played" /\ plays >= 1
    /\ values[0] = 3 /\ values[n_trace_size - 1] = 3

\* a scalar has dim == [1]
ScalarShape(dim) == dim = <<1>>

\* a one-element tensor of higher rank, which TensorDim::is_scalar takes for a scalar
OneElementTensor(dim) == is_scalar(dim) /\ ~ScalarShape(dim)

\* C14: an element-wise binary operation (+, -, /, ^) on two operands of equal
\* shapes gives a result of that shape; with exactly one scalar side it gives a
\* result with the shape of the other side; any other combination of shapes
\* fails with a shape-mismatch error and appends no operator to the tape.
\* (Stated for operands none of which is a one-element tensor of higher rank.)
C14_BroadcastOrFail ==
    (/\ last_call.call = "binary"
     /\ ~OneElementTensor(last_call.args.a.dim)
     /\ ~OneElementTensor(last_call.args.b.dim)) =>
        LET a == last_call.args.a
            b == last_call.args.b
        IN  IF a.dim = b.dim
            THEN last_call.outcome = "ok" /\ last_call.handle.dim = a.dim
            ELSE IF ScalarShape(a.dim) # ScalarShape(b.dim)
            THEN /\ last_call.outcome = "ok"
                 /\ last_call.handle.dim = IF ScalarShape(a.dim) THEN b.dim ELSE a.dim
            ELSE /\ last_call.outcome = "logic_error"
                 /\ operations = last_call.ops_before

\* C15: dot(a, b) on operands of different lengths, and matmult(a, b) whose
\* left column count differs from its right row count, fail with a
\* shape-mismatch error and append no operator to the tape.  Any outcome
\* other than a returned handle is counted as the failure.
C15_DotMatmultMismatch ==
    LET a == last_call.args.a
        b == last_call.args.b
    IN  /\ (last_call.call = "dot" /\ size(a.dim) # size(b.dim)) =>
              (last_call.outcome # "ok" /\ operations = last_call.ops_before)
        /\ (last_call.call = "matmult" /\ a.dim[2] # b.dim[1]) =>
              (last_call.outcome # "ok" /\ operations = last_call.ops_before)

\* the subscript of the last element access is inside the handle: one
\* subscript inside the vectorized range, two subscripts inside rows and columns
SubscriptInRange ==
    LET a == last_call.args.a
        sub == last_call.args.sub
    IN  IF Len(sub) = 1
        THEN sub[1] >= 0 /\ sub[1] < size(a.dim)
        ELSE /\ sub[1] >= 0 /\ sub[1] < a.dim[1]
             /\ sub[2] >= 0 /\ sub[2] < a.dim[2]

\* the last call is an element access with as many subscripts as the handle takes
IsElementAccess ==
    /\ last_call.call = "subset"
    /\ Len(last_call.args.sub) = 2 => Len(last_call.args.a.dim) = 2

\* C16: element access with a subscript outside the range, below the first
\* element as well as past the last, fails with an out-of-range error and
\* never returns a handle on a slot outside [tape_begin, tape_end) of the
\* handle.  Any outcome other than a returned handle is counted as the failure.
C16_SubscriptOutOfRange ==
    /\ (IsElementAccess /\ ~SubscriptInRange) => last_call.outcome # "ok"
    /\ (IsElementAccess /\ last_call.outcome = "ok") =>
          /\ last_call.handle.tape_begin >= last_call.args.a.tape_begin
          /\ last_call.handle.tape_begin < last_call.args.a.tape_begin + size(last_call.args.a.dim)

\* C17: a[i] with a valid subscript returns a scalar handle with tape_begin
\* = a.tape_begin + i and leaves the tape as it was: no operator appended,
\* n_input_size, n_trace_size and initial_values unchanged, after any number
\* of element accesses.
C17_ElementAccessFrame ==
    (IsElementAccess /\ Len(last_call.args.sub) = 1 /\ SubscriptInRange) =>
        /\ last_call.outcome = "ok"
        /\ last_call.handle = Handle(last_call.args.a.tape_begin + last_call.args.sub[1], <<1>>)
        /\ operations = last_call.ops_before
        /\ <<n_input_size, n_trace_size, initial_values>> = last_call.sizes_before

\* an element of the output of a recorded operator has been read
C17_Witness ==
    /\ IsElementAccess /\ Len(last_call.args.sub) = 1 /\ SubscriptInRange
    /\ operations # <<>>
    /\ last_call.args.sub[1] = 1
    /\ last_call.args.a.tape_begin >= n_input_size

\* the two operands of the last binary overload call
OperandsOverlap ==
    RangesOverlap(tape_range(last_call.args.a), tape_range(last_call.args.b))

\* the operators that take one input range and stand for a (op) a
SelfFormKinds ==
    {SelfScalarKind(f) : f \in BinaryOverloads} \cup {SelfVectorKind(f) : f \in BinaryOverloads}

\* C23: every operator appended by a binary overload on two handles has
\* disjoint left and right input ranges; when the two operands overlap (the
\* same handle, or a vector and one of its own elements) the call succeeds
\* and appends a self-form, never a two-input operator over overlapping
\* ranges and never an error.
C23_OverlapGivesSelfForm ==
    (last_call.call = "binary" /\ OperandsOverlap) =>
        /\ last_call.outcome = "ok"
        /\ AppendedOne
        /\ LastOp.kind \in SelfFormKinds

\* C24: a self-form is appended by a binary overload only when both operands
\* cover exactly the same range of the trace.
C24_SelfFormOnSameRange ==
    (last_call.call = "binary" /\ AppendedOne /\ LastOp.kind \in SelfFormKinds) =>
        tape_range(last_call.args.a) = tape_range(last_call.args.b)

(***************************************************************************)
(* Profile likelihood properties                                           *)
(***************************************************************************)
\* C19: when confidence_intervals_profile returns normally the inputs of the
\* trace are the optimum they were at entry, the solver's set of fixed
\* indices is empty, and values, adjoints and Hessian are those of play() at
\* that optimum.
C19_ProfileRestores ==
    lm.pc = "returned" =>
        /\ \A s \in 0 .. (n_input_size - 1) : values[s] = lm.at_entry.values[s]
        /\ lm.fixed_parameter_indices = {}
        /\ values = lm.at_entry.values
        /\ adjoints = lm.at_entry.adjoints
        /\ hessian = lm.at_entry.hessian

\* the call returned after maximize() had moved the inputs of a tape with
\* two inputs and a stored Hessian away from the optimum
C19_Witness ==
    /\ lm.pc = "returned" /\ lm.moved
    /\ n_input_size >= 2 /\ operations # <<>> /\ hessian # EmptyMatrix

\* C28: when the computation of the profile intervals is aborted by an error
\* raised by maximize() or its line search, the restore steps have still been
\* applied: the solver's set of fixed indices is empty and the inputs of the
\* trace are the optimum saved at entry.
C28_RestoreOnError ==
    lm.pc = "raised" =>
        /\ lm.fixed_parameter_indices = {}
        /\ \A s \in 0 .. (n_input_size - 1) : values[s] = lm.optimal_inputs[s]

(***************************************************************************)
(* Element reference properties                                            *)
(***************************************************************************)
\* C25: after get(i, j) = 0.0 the entries (i, j) and (j, i) are not stored,
\* no stored row is empty and read(i, j) and read(j, i) return 0.0, also when
\* the reference was freshly obtained from get.
C25_AssignZeroRemoves ==
    ref.zeroed =>
        /\ ~HasElem(hessian, ref.i, ref.j) /\ ~HasElem(hessian, ref.j, ref.i)
        /\ read(hessian, ref.i, ref.j) = 0 /\ read(hessian, ref.j, ref.i) = 0
        /\ \A r \in DOMAIN hessian : DOMAIN hessian[r] # {}

(***************************************************************************)
(* Newton direction properties                                             *)
(***************************************************************************)
\* maximize() is at or past the point where the working matrix is built, and
\* the matrix has not been reweighted since
WorkingMatrixBuilt ==
    /\ sv.pc \in {"nm_loop_test", "nm_regul", "nm_line_search"}
    /\ sv.attempt = 0
    /\ sv.pc = "nm_loop_test" => sv.newton_step_index = 0

\* C21: in the working matrix built from the trace Hessian with the set F of
\* fixed indices, for every p in F the diagonal entry (p, p) is -1 and every
\* off-diagonal entry of row p and of column p is zero, whether or not the
\* trace Hessian stores a row for p; every entry (i, j) with i and j outside
\* F equals the entry of the trace Hessian.
C21_WorkingMatrix ==
    WorkingMatrixBuilt =>
        LET F == sv.fixed_parameter_indices
            E == sv.Eigen_hessian
            I == 0 .. (n_input_size - 1)
        IN  /\ \A p \in F :
                  /\ read(E, p, p) = -1
                  /\ \A j \in I \ {p} : read(E, p, j) = 0 /\ read(E, j, p) = 0
            /\ \A i \in I \ F : \A j \in I \ F : read(E, i, j) = read(hessian, i, j)

\* C27: the last regularization attempt (n_regul = max_regularization_attempts)
\* uses lambda = 1 and solves with the identity matrix over all input
\* indices: diagonal 1 for every input index, every off-diagonal 0, whatever
\* the stored entries of the trace Hessian.
C27_LastAttemptIdentity ==
    (sv.pc \in {"nm_regul", "nm_line_search"}
        /\ sv.attempt > 0 /\ sv.attempt = sv.max_regularization_attempts) =>
        \A i \in 0 .. (n_input_size - 1) : \A j \in 0 .. (n_input_size - 1) :
            read(sv.Eigen_hessian, i, j) = IF i = j THEN sv.scale ELSE 0

\* C22: during maximize() with the set F of fixed indices, for every p in F
\* the adjoint used to compute the direction is zero, the direction component
\* of p is zero when the line search starts, and values[p] when maximize()
\* returns is values[p] at entry.
C22_FixedStayFixed ==
    /\ sv.pc \in {"nm_regul", "nm_line_search"} =>
          \A p \in sv.fixed_parameter_indices : adjoints[p] = 0
    /\ sv.pc = "nm_line_search" =>
          \A p \in sv.fixed_parameter_indices : sv.direction_buffer.num[p] = 0
    /\ sv.pc = "nm_returned" =>
          \A p \in sv.fixed_parameter_indices : values[p] = sv.at_entry[p]

====
